---- MODULE Spec2Model ----
(***************************************************************************)
(* obsidian-tmdb-cover: the note model (frontmatter splitter, need         *)
(* detector, note merger) and the run orchestrator.                        *)
(*                                                                         *)
(* Text is modelled by TLA+ strings, character for character: Len, \o and  *)
(* SubSeq act on strings as Python's len, + and slicing do.  Python values *)
(* held in the frontmatter are tagged records (none, bool, int, str,       *)
(* list), and the frontmatter dict is a sequence of key/value pairs in     *)
(* insertion order.                                                        *)
(***************************************************************************)
EXTENDS Integers, Sequences, FiniteSets, TLC

VARIABLES
    disk,          \* the note files: path -> file text
    note,          \* the ObsidianNoteUpdater in memory: path, frontmatter, body
    hist,          \* what the last note operations were called with and returned
    run            \* the orchestrator: loop position, tally, log of effects

vars == <<disk, note, hist, run>>

---------------------------------------------------------------------------
(* Python str primitives                                                   *)

At(s, i) == SubSeq(s, i, i)

\* s[a:b] with 0 <= a, b <= len(s)
Slice(s, a, b) == SubSeq(s, a + 1, b)

\* s[a:]
SliceFrom(s, a) == SubSeq(s, a + 1, Len(s))

startswith(s, p) == Len(p) <= Len(s) /\ SubSeq(s, 1, Len(p)) = p

endswith(s, p) == Len(p) <= Len(s) /\ SubSeq(s, Len(s) - Len(p) + 1, Len(s)) = p

\* the characters str.strip() removes, of those the model's texts use
Whitespace == {" ", "\n", "\t"}

rstrip(s) ==
    LET kept == {i \in 1..Len(s) : At(s, i) \notin Whitespace} IN
    IF kept = {} THEN ""
    ELSE SubSeq(s, 1, CHOOSE i \in kept : \A j \in kept : j <= i)

lstrip(s) ==
    LET kept == {i \in 1..Len(s) : At(s, i) \notin Whitespace} IN
    IF kept = {} THEN ""
    ELSE SubSeq(s, CHOOSE i \in kept : \A j \in kept : i <= j, Len(s))

\* s.rstrip("\n")
rstripNL(s) ==
    LET kept == {i \in 1..Len(s) : At(s, i) # "\n"} IN
    IF kept = {} THEN ""
    ELSE SubSeq(s, 1, CHOOSE i \in kept : \A j \in kept : j <= i)

\* s.find(sub, start): the lowest 0-based index >= start where sub occurs, or -1
findFrom(s, sub, start) ==
    LET hits == {i \in start..(Len(s) - Len(sub)) :
                    SubSeq(s, i + 1, i + Len(sub)) = sub} IN
    IF hits = {} THEN -1
    ELSE CHOOSE i \in hits : \A j \in hits : i <= j

find(s, sub) == findFrom(s, sub, 0)

\* sub in s
contains(s, sub) == find(s, sub) # -1

\* s.split(sep)
RECURSIVE split(_, _)
split(s, sep) ==
    LET i == find(s, sep) IN
    IF i = -1 THEN <<s>>
    ELSE <<Slice(s, 0, i)>> \o split(SliceFrom(s, i + Len(sep)), sep)

\* sep.join(parts)
RECURSIVE join(_, _)
join(parts, sep) ==
    IF parts = <<>> THEN ""
    ELSE IF Len(parts) = 1 THEN parts[1]
    ELSE parts[1] \o sep \o join(Tail(parts), sep)

\* count of non-overlapping occurrences of sub in s (str.count)
RECURSIVE count(_, _)
count(s, sub) ==
    LET i == find(s, sub) IN
    IF i = -1 THEN 0 ELSE 1 + count(SliceFrom(s, i + Len(sub)), sub)

\* s.replace(old, new)
RECURSIVE replace(_, _, _)
replace(s, old, new) ==
    LET i == find(s, old) IN
    IF i = -1 THEN s
    ELSE Slice(s, 0, i) \o new \o replace(SliceFrom(s, i + Len(old)), old, new)

\* s.strip(chars) for a one-character chars
RECURSIVE stripChar(_, _)
stripChar(s, c) ==
    IF s = "" THEN ""
    ELSE IF At(s, 1) = c THEN stripChar(SubSeq(s, 2, Len(s)), c)
    ELSE IF At(s, Len(s)) = c THEN stripChar(SubSeq(s, 1, Len(s) - 1), c)
    ELSE s

\* the printable ASCII characters the model's texts use, in code point order
CodePoints ==
    "\t\n !\"#$%&'()*+,-./0123456789:;<=>?@ABCDEFGHIJKLMNOPQRSTUVWXYZ[]^_abcdefghijklmnopqrstuvwxyz{|}~"

Ord(c) == find(CodePoints, c)

\* a < b for two str, as Python compares them
RECURSIVE StrLess(_, _)
StrLess(a, b) ==
    IF b = "" THEN FALSE
    ELSE IF a = "" THEN TRUE
    ELSE IF At(a, 1) = At(b, 1) THEN StrLess(SubSeq(a, 2, Len(a)), SubSeq(b, 2, Len(b)))
    ELSE Ord(At(a, 1)) < Ord(At(b, 1))


---------------------------------------------------------------------------
(* Python values                                                           *)

NoneV == [t |-> "none"]
BoolV(b) == [t |-> "bool", b |-> b]
IntV(n) == [t |-> "int", n |-> n]
StrV(s) == [t |-> "str", s |-> s]
ListV(l) == [t |-> "list", l |-> l]

\* bool(v)
Truthy(v) ==
    CASE v.t = "none" -> FALSE
      [] v.t = "bool" -> v.b
      [] v.t = "int" -> v.n # 0
      [] v.t = "str" -> v.s # ""
      [] v.t = "list" -> v.l # <<>>

\* isinstance(v, int): bool is a subclass of int
IsInt(v) == v.t \in {"int", "bool"}

IsStr(v) == v.t = "str"

IsList(v) == v.t = "list"

\* the dict: key in d, d.get(key), d.get(key, default), d[key] = value
HasKey(d, k) == \E i \in 1..Len(d) : d[i].k = k

Get(d, k) ==
    IF HasKey(d, k) THEN d[CHOOSE i \in 1..Len(d) : d[i].k = k].v ELSE NoneV

GetDefault(d, k, default) ==
    IF HasKey(d, k) THEN d[CHOOSE i \in 1..Len(d) : d[i].k = k].v ELSE default

Put(d, k, v) ==
    IF HasKey(d, k)
    THEN [i \in 1..Len(d) |-> IF d[i].k = k THEN [k |-> k, v |-> v] ELSE d[i]]
    ELSE Append(d, [k |-> k, v |-> v])

Keys(d) == [i \in 1..Len(d) |-> d[i].k]

---------------------------------------------------------------------------
(* yaml.safe_load and yaml.dump, for the block-style subset the notes use: *)
(* one "key: scalar" line per key, "key:" followed by "- item" lines or a  *)
(* flow list "[a, b]" for a list, plain, single- or double-quoted scalars, *)
(* "#" comments, and the empty flow mapping "{}" that dump writes for an   *)
(* empty dict.                                                             *)

Digits == "0123456789"

IsDecimal(s) ==
    /\ s # ""
    /\ \A i \in 1..Len(s) : contains(Digits, At(s, i))
    /\ (Len(s) > 1 => At(s, 1) # "0")

RECURSIVE ParseInt(_)
ParseInt(s) ==
    IF Len(s) = 1 THEN find(Digits, s)
    ELSE 10 * ParseInt(SubSeq(s, 1, Len(s) - 1)) + find(Digits, At(s, Len(s)))

RECURSIVE IntStr(_)
IntStr(n) ==
    IF n < 10 THEN At(Digits, n + 1)
    ELSE IntStr(n \div 10) \o At(Digits, (n % 10) + 1)

NullWords == {"", "~", "null", "Null", "NULL"}
TrueWords == {"true", "True", "TRUE", "yes", "Yes", "YES", "on", "On", "ON"}
FalseWords == {"false", "False", "FALSE", "no", "No", "NO", "off", "Off", "OFF"}

\* the implicit resolver: the value a plain scalar stands for
Resolve(s) ==
    IF s \in NullWords THEN NoneV
    ELSE IF s \in TrueWords THEN BoolV(TRUE)
    ELSE IF s \in FalseWords THEN BoolV(FALSE)
    ELSE IF IsDecimal(s) THEN IntV(ParseInt(s))
    ELSE StrV(s)

YamlError == [err |-> TRUE, v |-> NoneV]
YamlOk(v) == [err |-> FALSE, v |-> v]

\* a plain scalar ends where a comment starts
CutComment(s) ==
    LET i == find(s, " #") IN IF i = -1 THEN s ELSE rstrip(Slice(s, 0, i))

\* one scalar node (not a collection)
ScalarNode(text) ==
    LET s == lstrip(rstrip(text)) IN
    IF s = "" \/ startswith(s, "#") THEN YamlOk(NoneV)
    ELSE IF startswith(s, "'") THEN
        IF Len(s) >= 2 /\ endswith(s, "'") /\ ~contains(Slice(s, 1, Len(s) - 1), "'")
        THEN YamlOk(StrV(Slice(s, 1, Len(s) - 1)))
        ELSE YamlError
    ELSE IF startswith(s, "\"") THEN
        IF Len(s) >= 2 /\ endswith(s, "\"") /\ ~contains(Slice(s, 1, Len(s) - 1), "\"")
        THEN YamlOk(StrV(Slice(s, 1, Len(s) - 1)))
        ELSE YamlError
    ELSE IF At(s, 1) \in {"[", "]", "{", "}", ",", "&", "*", "!", "|", ">", "%", "@"}
        THEN YamlError
    ELSE IF contains(s, ": ") \/ endswith(s, ":") THEN YamlError
    ELSE YamlOk(Resolve(CutComment(s)))

RECURSIVE FlowItems(_)
FlowItems(parts) ==
    IF parts = <<>> THEN YamlOk(<<>>)
    ELSE
        LET h == ScalarNode(parts[1])
            r == FlowItems(Tail(parts))
        IN  IF h.err \/ r.err \/ lstrip(rstrip(parts[1])) = "" THEN YamlError
            ELSE YamlOk(<<h.v>> \o r.v)

\* the value text after "key:"
ValueNode(text) ==
    LET s == lstrip(rstrip(text)) IN
    IF startswith(s, "[") THEN
        IF ~endswith(s, "]") THEN YamlError
        ELSE IF lstrip(Slice(s, 1, Len(s) - 1)) = "" THEN YamlOk(ListV(<<>>))
        ELSE
            LET items == FlowItems(split(Slice(s, 1, Len(s) - 1), ",")) IN
            IF items.err THEN YamlError ELSE YamlOk(ListV(items.v))
    ELSE ScalarNode(s)

\* the lines of a block mapping, in order; open is the key whose value may still
\* take "- item" lines ("" when none does)
RECURSIVE LoadLines(_, _, _)
LoadLines(lines, d, open) ==
    IF lines = <<>> THEN [err |-> FALSE, d |-> d]
    ELSE
        LET l == rstrip(Head(lines))
            i == find(l, ":")
        IN
        IF l = "" \/ startswith(l, "#") THEN LoadLines(Tail(lines), d, open)
        ELSE IF startswith(l, "- ") \/ l = "-" THEN
            LET item == ScalarNode(SliceFrom(l, 1))
                sofar == Get(d, open)
            IN  IF open = "" \/ item.err THEN [err |-> TRUE, d |-> <<>>]
                ELSE LoadLines(Tail(lines),
                               Put(d, open, ListV((IF IsList(sofar) THEN sofar.l ELSE <<>>)
                                                  \o <<item.v>>)),
                               open)
        ELSE IF i < 1 \/ startswith(l, " ") \/ contains(Slice(l, 0, i), " ")
                \/ ~(i + 1 = Len(l) \/ At(l, i + 2) = " ")
            THEN [err |-> TRUE, d |-> <<>>]
        ELSE
            LET key == Slice(l, 0, i)
                val == ValueNode(SliceFrom(l, i + 1))
            IN  IF val.err THEN [err |-> TRUE, d |-> <<>>]
                ELSE LoadLines(Tail(lines), Put(d, key, val.v),
                               IF val.v = NoneV THEN key ELSE "")

\* yaml.safe_load(text): err stands for yaml.YAMLError; d is the mapping (the empty
\* one for a document that loads as None)
safe_load(text) ==
    IF lstrip(rstrip(text)) = "{}" THEN [err |-> FALSE, d |-> <<>>]
    ELSE LoadLines(split(text, "\n"), <<>>, "")

\* the representer's choice of style: a str is written plain unless it would then
\* load as something else
NeedsQuote(s) ==
    \/ Resolve(s).t # "str"
    \/ At(s, 1) \in {"#", "[", "]", "{", "}", ",", "&", "*", "!", "|", ">", "%", "@",
                     "'", "\"", " "}
    \/ At(s, Len(s)) \in {" ", ":"}
    \/ startswith(s, "- ") \/ s = "-"
    \/ contains(s, ": ") \/ contains(s, " #")

DumpScalar(v) ==
    CASE v.t = "none" -> "null"
      [] v.t = "bool" -> IF v.b THEN "true" ELSE "false"
      [] v.t = "int" -> IntStr(v.n)
      [] v.t = "str" -> IF NeedsQuote(v.s) THEN "'" \o v.s \o "'" ELSE v.s
      [] v.t = "list" -> "[]"

RECURSIVE DumpItems(_)
DumpItems(l) ==
    IF l = <<>> THEN "" ELSE "- " \o DumpScalar(l[1]) \o "\n" \o DumpItems(Tail(l))

DumpEntry(e) ==
    IF e.v.t = "list" /\ e.v.l # <<>>
    THEN e.k \o ":\n" \o DumpItems(e.v.l)
    ELSE e.k \o ": " \o DumpScalar(e.v) \o "\n"

RECURSIVE DumpEntries(_)
DumpEntries(d) ==
    IF d = <<>> THEN "" ELSE DumpEntry(d[1]) \o DumpEntries(Tail(d))

\* yaml.dump(d, default_flow_style=False, allow_unicode=True, sort_keys=False)
dump(d) == IF d = <<>> THEN "{}\n" ELSE DumpEntries(d)

---------------------------------------------------------------------------
(* ObsidianNoteUpdater: parsing and saving                                 *)

Delim == "---\n"
Closing == "\n---\n"

\* MatchFrontmatter with the closing delimiter's line break left out of the pattern
MatchFrontmatter_OpenClosing(content) ==
    LET j == findFrom(content, "\n---", Len(Delim)) IN
    [matched |-> startswith(content, Delim) /\ j # -1,
     group1 |-> IF j = -1 THEN "" ELSE Slice(content, Len(Delim), j),
     group2 |-> IF j = -1 THEN "" ELSE SliceFrom(content, j + Len("\n---"))]

\* re.match(r"^---\n(.*?)\n---\n(.*)$", content, re.DOTALL): the lazy group ends at
\* the first closing delimiter at or after the opening one
MatchFrontmatter(content) ==
    LET j == findFrom(content, Closing, Len(Delim)) IN
    [matched |-> startswith(content, Delim) /\ j # -1,
     group1 |-> IF j = -1 THEN "" ELSE Slice(content, Len(Delim), j),
     group2 |-> IF j = -1 THEN "" ELSE SliceFrom(content, j + Len(Closing))]

\* _parse_content: the (frontmatter, body) of a file's text
_parse_content(content) ==
    IF startswith(content, Delim) THEN
        LET match == MatchFrontmatter(content)
            loaded == safe_load(match.group1)
        IN  IF match.matched
            THEN [frontmatter |-> IF loaded.err THEN <<>> ELSE loaded.d,
                  body |-> match.group2]
            ELSE [frontmatter |-> <<>>, body |-> content]
    ELSE [frontmatter |-> <<>>, body |-> content]

\* FileText with the line break before the closing delimiter forgotten
FileText_NoBreak(frontmatter, body) ==
    Delim \o rstripNL(dump(frontmatter)) \o "---\n" \o body

\* the text _save_file writes
FileText(frontmatter, body) ==
    Delim \o rstripNL(dump(frontmatter)) \o Closing \o body

\* ObsidianNoteUpdater(file_path): read the file and parse it
NewNote(path, text) ==
    LET Parsed(p) == [path |-> path, frontmatter |-> p.frontmatter, body |-> p.body]
    IN  Parsed(_parse_content(text))

\* no note constructed yet
NoNote == [path |-> 0, frontmatter |-> <<>>, body |-> ""]

\* _save_file: the disk after the note n is written back
_save_file(d, n) == [d EXCEPT ![n.path] = FileText(n.frontmatter, n.body)]

---------------------------------------------------------------------------
(* ObsidianNoteUpdater: the marker-delimited content region                *)

start_marker == "<!-- TMDB_DATA_START -->"
end_marker == "<!-- TMDB_DATA_END -->"

has_tmdb_content_markers(body) == contains(body, start_marker)

\* inject_tmdb_markers: the body it leaves
inject_tmdb_markers(body, tmdb_content) ==
    LET body_stripped == rstrip(body) IN
    IF body_stripped # ""
    THEN body_stripped \o "\n\n" \o start_marker \o "\n" \o tmdb_content \o "\n"
         \o end_marker \o "\n"
    ELSE start_marker \o "\n" \o tmdb_content \o "\n" \o end_marker \o "\n"

\* update_body_content dropping the text after the end marker
update_body_content_DropsAfter(body, tmdb_content) ==
    IF has_tmdb_content_markers(body) /\ find(body, end_marker) > find(body, start_marker)
    THEN rstrip(Slice(body, 0, find(body, start_marker))) \o "\n\n" \o start_marker
         \o "\n" \o tmdb_content \o "\n" \o end_marker
    ELSE inject_tmdb_markers(body, tmdb_content)

\* update_body_content: the body it leaves
update_body_content(body, tmdb_content) ==
    IF has_tmdb_content_markers(body) THEN
        LET start_idx == find(body, start_marker)
            end_idx == find(body, end_marker)
            before == rstrip(Slice(body, 0, start_idx))
            after == lstrip(SliceFrom(body, end_idx + Len(end_marker)))
            new_body == before \o "\n\n" \o start_marker \o "\n" \o tmdb_content \o "\n"
                        \o end_marker
        IN  IF start_idx # -1 /\ end_idx # -1 /\ end_idx > start_idx
            THEN IF after # "" THEN new_body \o "\n" \o after ELSE new_body
            ELSE inject_tmdb_markers(body, tmdb_content)
    ELSE inject_tmdb_markers(body, tmdb_content)

---------------------------------------------------------------------------
(* The orchestrator at rest: what run holds in the specifications that     *)
(* exercise one note's operations directly                                 *)

RunIdle == [pc |-> "idle"]

---------------------------------------------------------------------------
(* SpecBody: update_body_content called repeatedly on one note             *)

MaxCalls == 3

\* the text above the region, the region as the file has it, the text below
BodyAbove == {"", "a", "a \n", "\n\n", "# T\n\ntext\n"}
BodyRegion ==
    {"",
     start_marker \o "\nold\n" \o end_marker,
     start_marker \o end_marker,
     start_marker \o "\nold",
     end_marker \o "\nold\n" \o start_marker,
     end_marker}
BodyBelow == {"", "\n", "z", "\n\nz\n"}

Bodies == {a \o r \o b : a \in BodyAbove, r \in BodyRegion, b \in BodyBelow}

\* generated content: it never holds a marker
Contents == {"new", "## Overview\n\ntext", " x\n"}

Headers == {"", "---\ntitle: Foo\n---\n"}

InitBody ==
    /\ \E h \in Headers, b \in Bodies :
        /\ ~startswith(b, Delim)
        /\ disk = <<h \o b>>
        /\ note = NewNote(1, h \o b)
    /\ hist = [op |-> "init", calls |-> 0, body0 |-> note.body, prevBody |-> note.body,
               content |-> "", prevContent |-> ""]
    /\ run = RunIdle

\* note.update_body_content(tmdb_content), its save included
UpdateBodyContent(tmdb_content) ==
    /\ hist.calls < MaxCalls
    /\ note' = [note EXCEPT !.body = update_body_content(note.body, tmdb_content)]
    /\ disk' = _save_file(disk, note')
    /\ hist' = [op |-> "update_body_content", calls |-> hist.calls + 1,
                body0 |-> hist.body0, prevBody |-> note.body,
                content |-> tmdb_content, prevContent |-> hist.content]
    /\ UNCHANGED run

NextBody == \E c \in Contents : UpdateBodyContent(c)

SpecBody == InitBody /\ [][NextBody]_vars

\* the body has a marker pair the code takes as well formed: both markers, the
\* first end marker after the first start marker
WellFormed(body) ==
    /\ find(body, start_marker) # -1
    /\ find(body, end_marker) > find(body, start_marker)

\* the text before the first start marker, and the text after the first end marker
TextBefore(body) == Slice(body, 0, find(body, start_marker))
TextAfter(body) == SliceFrom(body, find(body, end_marker) + Len(end_marker))

\* the marker-delimited regions of a body: start markers closed by an end marker
\* before the next start marker
RECURSIVE Regions(_)
Regions(body) ==
    LET s == find(body, start_marker)
        rest == SliceFrom(body, s + Len(start_marker))
        e == find(rest, end_marker)
        s2 == find(rest, start_marker)
    IN  IF s = -1 THEN 0
        ELSE IF e = -1 THEN 0
        ELSE IF s2 # -1 /\ s2 < e THEN Regions(rest)
        ELSE 1 + Regions(SliceFrom(rest, e + Len(end_marker)))

\* C2: calling update_body_content twice with the same content leaves the body the
\* first call left
C2_Idempotent ==
    (hist.calls >= 2 /\ hist.content = hist.prevContent) => note.body = hist.prevBody

C4_AtMostOneRegion == hist.calls >= 1 => Regions(note.body) <= 1

\* C5: when the markers are absent or malformed in the initial body, that body's
\* text stays at the top of the body after every call
C5_PriorTextKept ==
    (hist.calls >= 1 /\ ~WellFormed(hist.body0)) =>
        startswith(note.body, rstrip(hist.body0))

---------------------------------------------------------------------------
(* SpecParse: a file is read, saved with no field changed, and read again  *)

MaxLoads == 2
MaxSaves == 2

DocOpenings == {"---\n", "", "----\n", "--\n"}
DocBlocks ==
    {"",
     "title: Foo",
     "cover: '#1A2B3C'\ntags: [a, movie/X]",
     "tags:\n- x\nruntime: 100\ntmdb_id: 5",
     "k: [",
     "b: 1\na: true\nb: \"3\""}
DocClosings == {"\n---\n", "\n---", "\n----\n", "\n"}
DocBodies == {"", "text\n", "# H\n\n---\nmore\n", "\n---\n"}

Documents ==
    {o \o f \o c \o b : o \in DocOpenings, f \in DocBlocks, c \in DocClosings,
                        b \in DocBodies}

InitParse ==
    /\ \E doc \in Documents :
        /\ disk = <<doc>>
        /\ hist = [op |-> "init", loads |-> 0, saves |-> 0, doc0 |-> doc, read |-> "",
                   frontmatter0 |-> <<>>, body0 |-> "", prevDisk |-> ""]
    /\ note = NoNote
    /\ run = RunIdle

\* note = ObsidianNoteUpdater(path)
Construct ==
    /\ hist.loads < MaxLoads
    /\ note' = NewNote(1, disk[1])
    /\ hist' = [hist EXCEPT !.op = "construct", !.loads = @ + 1, !.read = disk[1],
                            !.frontmatter0 = IF hist.loads = 0 THEN note'.frontmatter ELSE @,
                            !.body0 = IF hist.loads = 0 THEN note'.body ELSE @]
    /\ UNCHANGED <<disk, run>>

\* note._save_file() with no field changed since the note was read
SaveFile ==
    /\ note.path # 0
    /\ hist.saves < MaxSaves
    /\ disk' = _save_file(disk, note)
    /\ hist' = [hist EXCEPT !.op = "save", !.saves = @ + 1, !.prevDisk = disk[1]]
    /\ UNCHANGED <<note, run>>

NextParse == Construct \/ SaveFile

SpecParse == InitParse /\ [][NextParse]_vars

\* the delimiter lines of a document, line by line
DocLines(doc) == split(doc, "\n")
HasLeadingDelimiter(doc) == DocLines(doc)[1] = "---"
HasClosingDelimiter(doc) == \E j \in 2..Len(DocLines(doc)) : DocLines(doc)[j] = "---"

\* C6: a document read without a leading delimiter line, or with one and no closing
\* delimiter line, parses to the empty frontmatter and to a body that is the whole text
C6_NoFrontmatterWholeBody ==
    (hist.op = "construct"
     /\ (~HasLeadingDelimiter(hist.read) \/ ~HasClosingDelimiter(hist.read))) =>
        /\ note.frontmatter = <<>>
        /\ note.body = hist.read

C6_Witness ==
    /\ hist.op = "construct"
    /\ HasLeadingDelimiter(hist.read)
    /\ ~HasClosingDelimiter(hist.read)
    /\ contains(hist.read, "title: Foo")
    /\ note.body = hist.read

\* C7: for a document with a leading and a closing delimiter line, every later read
\* (after saves that change no field) yields the frontmatter and the body of the
\* first read, and a second save writes the file the save before it wrote
C7_RoundTrip ==
    (hist.loads >= 1 /\ HasLeadingDelimiter(hist.doc0) /\ HasClosingDelimiter(hist.doc0)) =>
        /\ note.frontmatter = hist.frontmatter0
        /\ note.body = hist.body0
        /\ (hist.saves >= 1 =>
               _parse_content(disk[1]) =
                   [frontmatter |-> hist.frontmatter0, body |-> hist.body0])
        /\ (hist.saves >= 2 => disk[1] = hist.prevDisk)

C7_Witness ==
    /\ hist.op = "construct"
    /\ hist.loads = 2
    /\ hist.saves = 1
    /\ disk[1] # hist.doc0
    /\ Keys(note.frontmatter) = <<"cover", "tags">>
    /\ Get(note.frontmatter, "tags") = ListV(<<StrV("a"), StrV("movie/X")>>)
    /\ note.body = "# H\n\n---\nmore\n"

---------------------------------------------------------------------------
(* ObsidianNoteUpdater: what the frontmatter says about cover and          *)
(* identifier; cli._determine_processing_needs                             *)

HexDigits == "0123456789abcdefABCDEF"

\* re.match(r"^#[0-9a-fA-F]{6}$", value) on a str: "$" also matches before one
\* final line break
_is_html_color_code(value) ==
    /\ IsStr(value)
    /\ (Len(value.s) = 7 \/ (Len(value.s) = 8 /\ At(value.s, 8) = "\n"))
    /\ At(value.s, 1) = "#"
    /\ \A i \in 2..7 : contains(HexDigits, At(value.s, i))

\* has_external_cover taking every string that is no colour code for a URL
has_external_cover_AnyString(frontmatter) ==
    LET cover == Get(frontmatter, "cover") IN
    IF ~Truthy(cover) \/ _is_html_color_code(cover) THEN FALSE ELSE IsStr(cover)

has_external_cover(frontmatter) ==
    LET cover == Get(frontmatter, "cover") IN
    IF ~Truthy(cover) \/ _is_html_color_code(cover) THEN FALSE
    ELSE IsStr(cover) /\ startswith(cover.s, "http")

get_existing_cover_url(frontmatter) ==
    IF has_external_cover(frontmatter) THEN Get(frontmatter, "cover") ELSE NoneV

\* get_tmdb_id without the isinstance test
get_tmdb_id_AnyTruthy(frontmatter) ==
    LET tmdb_id == Get(frontmatter, "tmdb_id") IN
    IF Truthy(tmdb_id) THEN tmdb_id ELSE NoneV

get_tmdb_id(frontmatter) ==
    LET tmdb_id == Get(frontmatter, "tmdb_id") IN
    IF Truthy(tmdb_id) /\ IsInt(tmdb_id) THEN tmdb_id ELSE NoneV

get_tmdb_type(frontmatter) ==
    LET tmdb_type == Get(frontmatter, "tmdb_type") IN
    IF tmdb_type \in {StrV("movie"), StrV("tv")} THEN tmdb_type ELSE NoneV

\* iterating a value: a list gives its entries, a str its characters, and any
\* other value raises TypeError
Iterable(v) == v.t \in {"list", "str"}
Items(v) ==
    IF v.t = "list" THEN v.l
    ELSE IF v.t = "str" THEN [i \in 1..Len(v.s) |-> StrV(At(v.s, i))]
    ELSE <<>>

\* has_genre_tags looking for the movie/ prefix alone
has_genre_tags_MovieOnly(existing_tags) ==
    \E i \in 1..Len(Items(existing_tags)) :
        /\ IsStr(Items(existing_tags)[i])
        /\ startswith(Items(existing_tags)[i].s, "movie/")

\* any(tag.startswith(("movie/", "tv/")) for tag in existing_tags if isinstance(tag, str))
has_genre_tags(existing_tags) ==
    \E i \in 1..Len(Items(existing_tags)) :
        /\ IsStr(Items(existing_tags)[i])
        /\ (startswith(Items(existing_tags)[i].s, "movie/")
            \/ startswith(Items(existing_tags)[i].s, "tv/"))

\* _determine_processing_needs(note): raised stands for the TypeError of iterating
\* a tags value that is no list and no str
_determine_processing_needs(frontmatter) ==
    LET existing_cover == Get(frontmatter, "cover")
        existing_runtime == Get(frontmatter, "runtime")
        existing_tags == GetDefault(frontmatter, "tags", ListV(<<>>))
        tmdb_id == get_tmdb_id(frontmatter)
        tmdb_type == get_tmdb_type(frontmatter)
    IN  [raised |-> ~Iterable(existing_tags),
         needs_cover |-> \/ ~Truthy(existing_cover)
                         \/ _is_html_color_code(existing_cover)
                         \/ has_external_cover(frontmatter),
         needs_metadata |-> ~Truthy(existing_runtime) \/ ~has_genre_tags(existing_tags),
         needs_tmdb_id |-> ~Truthy(tmdb_id) \/ ~Truthy(tmdb_type)]

---------------------------------------------------------------------------
(* SpecNeeds: the needs of one note, over the frontmatter values a note    *)
(* file can hold                                                           *)

Absent == [t |-> "absent"]

CoverValues ==
    {Absent, NoneV, StrV(""), StrV("#1A2B3C"), StrV("#1a2b3"), StrV("#1A2B3G"),
     StrV("https://x/y.jpg"), StrV("http://x/y.jpg"), StrV("attachments/a.jpg"),
     StrV("httpdocs/a.jpg"), IntV(5)}
RuntimeValues == {Absent, NoneV, IntV(0), IntV(100)}
TagsValues ==
    {Absent, NoneV, ListV(<<>>), ListV(<<StrV("other")>>), ListV(<<StrV("movie/Action")>>),
     ListV(<<StrV("other"), StrV("tv/Drama")>>), ListV(<<StrV("series/Drama")>>),
     ListV(<<IntV(7)>>), StrV("movie/Action")}
IdValues == {Absent, NoneV, IntV(0), IntV(603), StrV("603")}
TypeValues == {Absent, StrV("movie"), StrV("tv"), StrV("series"), IntV(1)}

Entry(k, v) == IF v = Absent THEN <<>> ELSE <<[k |-> k, v |-> v]>>

MakeFrontmatter(cover, runtime, tags, tmdb_id, tmdb_type) ==
    Entry("cover", cover) \o Entry("runtime", runtime) \o Entry("tags", tags)
    \o Entry("tmdb_id", tmdb_id) \o Entry("tmdb_type", tmdb_type)

NoNeeds == [raised |-> FALSE, needs_cover |-> FALSE, needs_metadata |-> FALSE,
            needs_tmdb_id |-> FALSE]

InitNeeds ==
    /\ \E c \in CoverValues, r \in RuntimeValues, g \in TagsValues, i \in IdValues,
          y \in TypeValues :
        /\ disk = <<FileText(MakeFrontmatter(c, r, g, i, y), "")>>
        /\ note = NewNote(1, disk[1])
    /\ hist = [op |-> "init", needs |-> NoNeeds]
    /\ run = RunIdle

\* _determine_processing_needs(note)
DetermineNeeds ==
    /\ hist.op = "init"
    /\ hist' = [op |-> "needs", needs |-> _determine_processing_needs(note.frontmatter)]
    /\ UNCHANGED <<disk, note, run>>

NextNeeds == DetermineNeeds

SpecNeeds == InitNeeds /\ [][NextNeeds]_vars

\* the claims' own reading of the frontmatter: a field is missing when its key is
\* absent or holds null
NoField(n, k) == ~HasKey(n.frontmatter, k) \/ Get(n.frontmatter, k) = NoneV
CoverOf(n) == Get(n.frontmatter, "cover")
IsRRGGBB(v) ==
    /\ IsStr(v)
    /\ Len(v.s) = 7
    /\ At(v.s, 1) = "#"
    /\ \A i \in 2..7 : contains(HexDigits, At(v.s, i))
IsAbsoluteUrl(v) == IsStr(v) /\ (startswith(v.s, "http://") \/ startswith(v.s, "https://"))

\* C8 as claimed: needs_cover is true exactly when the cover field is absent, or is
\* a #RRGGBB colour, or is an absolute URL
C8_NeedsCoverAsClaimed ==
    (hist.op = "needs" /\ ~hist.needs.raised) =>
        (hist.needs.needs_cover <=>
            \/ NoField(note, "cover")
            \/ IsRRGGBB(CoverOf(note))
            \/ IsAbsoluteUrl(CoverOf(note)))

\* C8 amended: needs_cover is true exactly when the cover field is absent or empty
\* (null, "", 0), or is a #RRGGBB colour, or is a string starting with "http";
\* has_external_cover is false for a colour and for any string not starting with
\* "http", and get_existing_cover_url is the stored value exactly when the cover is
\* external and None otherwise
C8_NeedsCover ==
    (hist.op = "needs" /\ ~hist.needs.raised) =>
        /\ hist.needs.needs_cover <=>
              \/ ~HasKey(note.frontmatter, "cover")
              \/ CoverOf(note) \in {NoneV, StrV(""), IntV(0), BoolV(FALSE), ListV(<<>>)}
              \/ IsRRGGBB(CoverOf(note))
              \/ (IsStr(CoverOf(note)) /\ startswith(CoverOf(note).s, "http"))
        /\ IsRRGGBB(CoverOf(note)) => ~has_external_cover(note.frontmatter)
        /\ (IsStr(CoverOf(note)) /\ ~startswith(CoverOf(note).s, "http"))
              => ~has_external_cover(note.frontmatter)
        /\ has_external_cover(note.frontmatter)
              <=> (IsStr(CoverOf(note)) /\ startswith(CoverOf(note).s, "http"))
        /\ get_existing_cover_url(note.frontmatter) =
              (IF has_external_cover(note.frontmatter) THEN CoverOf(note) ELSE NoneV)

C8_Witness ==
    /\ hist.op = "needs"
    /\ CoverOf(note) = StrV("attachments/a.jpg")
    /\ ~hist.needs.needs_cover
    /\ hist.needs.needs_metadata
    /\ hist.needs.needs_tmdb_id

\* the claims' own reading of the tags field: some entry of the list is a string
\* with one of the prefixes
TagsOf(n) == GetDefault(n.frontmatter, "tags", ListV(<<>>))
SomeTagWithPrefix(n, prefixes) ==
    /\ IsList(TagsOf(n))
    /\ \E i \in 1..Len(TagsOf(n).l) : \E p \in prefixes :
          IsStr(TagsOf(n).l[i]) /\ startswith(TagsOf(n).l[i].s, p)

\* C9 as claimed: needs_metadata is true exactly when the runtime field is absent
\* or no tag carries a movie/ or series/ prefix
C9_NeedsMetadataAsClaimed ==
    (hist.op = "needs" /\ ~hist.needs.raised) =>
        (hist.needs.needs_metadata <=>
            \/ NoField(note, "runtime")
            \/ ~SomeTagWithPrefix(note, {"movie/", "series/"}))

\* C9 amended: for a tags field that is absent, a list or a string, needs_metadata
\* is true exactly when the runtime is absent or empty (null, 0) or no string entry
\* of the tags list starts with movie/ or tv/; a tags field of any other kind
\* (null, a number) makes the computation raise
C9_NeedsMetadata ==
    hist.op = "needs" =>
        /\ hist.needs.raised <=>
              (HasKey(note.frontmatter, "tags") /\ TagsOf(note).t \notin {"list", "str"})
        /\ ~hist.needs.raised =>
              (hist.needs.needs_metadata <=>
                  \/ ~HasKey(note.frontmatter, "runtime")
                  \/ Get(note.frontmatter, "runtime") \in {NoneV, IntV(0)}
                  \/ ~SomeTagWithPrefix(note, {"movie/", "tv/"}))

C9_Witness ==
    /\ hist.op = "needs"
    /\ Get(note.frontmatter, "runtime") = IntV(100)
    /\ TagsOf(note) = ListV(<<StrV("other"), StrV("tv/Drama")>>)
    /\ ~hist.needs.needs_metadata
    /\ hist.needs.needs_cover

\* the frontmatter with only the given keys
Restrict(d, keys) == SelectSeq(d, LAMBDA e : e.k \in keys)

IdOf(n) == Get(n.frontmatter, "tmdb_id")
TypeOf(n) == Get(n.frontmatter, "tmdb_type")

\* C10 as claimed: needs_identifier is true exactly when tmdb_id is absent or not an
\* integer, or tmdb_type is absent or none of the two recognized strings
C10_NeedsIdentifierAsClaimed ==
    (hist.op = "needs" /\ ~hist.needs.raised) =>
        (hist.needs.needs_tmdb_id <=>
            \/ NoField(note, "tmdb_id")
            \/ ~IsInt(IdOf(note))
            \/ NoField(note, "tmdb_type")
            \/ TypeOf(note) \notin {StrV("movie"), StrV("tv")})

\* C10 amended: needs_identifier is true exactly when tmdb_id is absent, not an
\* integer or zero, or tmdb_type is absent or neither "movie" nor "tv"; and each of
\* the three needs is what the frontmatter's own fields alone give (cover; runtime
\* and tags; tmdb_id and tmdb_type)
C10_NeedsIdentifier ==
    (hist.op = "needs" /\ ~hist.needs.raised) =>
        /\ hist.needs.needs_tmdb_id <=>
              \/ ~HasKey(note.frontmatter, "tmdb_id")
              \/ ~IsInt(IdOf(note))
              \/ IdOf(note) \in {IntV(0), BoolV(FALSE)}
              \/ ~HasKey(note.frontmatter, "tmdb_type")
              \/ TypeOf(note) \notin {StrV("movie"), StrV("tv")}
        /\ hist.needs.needs_tmdb_id =
              _determine_processing_needs(
                  Restrict(note.frontmatter, {"tmdb_id", "tmdb_type"})).needs_tmdb_id
        /\ hist.needs.needs_cover =
              _determine_processing_needs(Restrict(note.frontmatter, {"cover"})).needs_cover
        /\ hist.needs.needs_metadata =
              _determine_processing_needs(
                  Restrict(note.frontmatter, {"runtime", "tags"})).needs_metadata

C10_Witness ==
    /\ hist.op = "needs"
    /\ IdOf(note) = IntV(603)
    /\ TypeOf(note) = StrV("tv")
    /\ ~hist.needs.needs_tmdb_id
    /\ hist.needs.needs_cover
    /\ hist.needs.needs_metadata

---------------------------------------------------------------------------
(* TMDBCoverFetcher. Every HTTP exchange is an outcome the environment     *)
(* chooses: o.fails exchanges that end in a requests.RequestException come *)
(* first, then the response o.resp. o.err is what the failed exchanges     *)
(* were: "transport" (no connection, timeout, HTTP 5xx) or "http_4xx" (a   *)
(* well-formed error response, which raise_for_status() turns into         *)
(* HTTPError, a RequestException)                                          *)

MaxAttempts == 3

image_base_url == "https://image.tmdb.org/t/p/original"

\* @retry(stop_after_attempt(3), retry_if_exception_type(RequestException)): the
\* attempts made, and whether the call ends by raising (tenacity.RetryError)
Attempts(o) == IF o.fails >= MaxAttempts THEN MaxAttempts ELSE o.fails + 1
Raises(o) == o.fails >= MaxAttempts

\* the attempts made after an attempt that got a well-formed HTTP 4xx response
StatusRetries(o) == IF o.err = "http_4xx" THEN Attempts(o) - 1 ELSE 0

\* the calls one note has caused
NoCalls ==
    [read |-> 0, search |-> 0, search_http |-> 0, picker |-> 0, detail |-> 0,
     detail_http |-> 0, genres |-> 0, genres_http |-> 0, image |-> 0, image_http |-> 0,
     status_retries |-> 0, write |-> 0]

_sanitize_genre_name_NoStrip(name) ==
    replace(replace(replace(replace(name, "&", "and"), "#", ""), "/", "-"), " ", "-")

\* _sanitize_genre_name(name)
_sanitize_genre_name(name) ==
    stripChar(replace(replace(replace(replace(name, "&", "and"), "#", ""), "/", "-"),
                      " ", "-"), "-")

search_multi_LimitBeforeFilter(o, limit) ==
    LET Kept(results) ==
            IF Len(results) > limit THEN SubSeq(results, 1, limit) ELSE results
    IN  [raised |-> Raises(o),
         results |-> IF Raises(o) THEN <<>>
                     ELSE SelectSeq(Kept(o.resp), LAMBDA r : r.media_type \in {"movie", "tv"}
                                                         /\ r.poster_path # ""),
         c |-> [NoCalls EXCEPT !.search = 1, !.search_http = Attempts(o),
                         !.status_retries = StatusRetries(o)]]

\* search_multi(query, limit): the results of the response that are a movie or a
\* series and carry a poster, the first limit of them
search_multi(o, limit) ==
    LET Kept(results) ==
            IF Len(results) > limit THEN SubSeq(results, 1, limit) ELSE results
    IN  [raised |-> Raises(o),
         results |-> IF Raises(o) THEN <<>>
                     ELSE Kept(SelectSeq(o.resp, LAMBDA r : r.media_type \in {"movie", "tv"}
                                                         /\ r.poster_path # "")),
         c |-> [NoCalls EXCEPT !.search = 1, !.search_http = Attempts(o),
                         !.status_retries = StatusRetries(o)]]

\* _get_genres(media_type): the mapping id -> name, from the cache when it is there
_get_genres(media_type, cache, o) ==
    IF HasKey(cache, media_type)
    THEN [raised |-> FALSE, genres |-> Get(cache, media_type), cache |-> cache,
          c |-> NoCalls]
    ELSE IF Raises(o)
    THEN [raised |-> TRUE, genres |-> <<>>, cache |-> cache,
          c |-> [NoCalls EXCEPT !.genres = 1, !.genres_http = Attempts(o),
                         !.status_retries = StatusRetries(o)]]
    ELSE [raised |-> FALSE, genres |-> o.resp, cache |-> Put(cache, media_type, o.resp),
          c |-> [NoCalls EXCEPT !.genres = 1, !.genres_http = Attempts(o),
                         !.status_retries = StatusRetries(o)]]

\* get_movie_details(id) / get_tv_details(id)
get_details(o) ==
    [raised |-> Raises(o), details |-> o.resp,
     c |-> [NoCalls EXCEPT !.detail = 1, !.detail_http = Attempts(o),
                         !.status_retries = StatusRetries(o)]]

\* the sum of two call records
AddCalls(a, b) == [k \in DOMAIN a |-> a[k] + b[k]]

\* genre_mapping[genre_id] for the ids the mapping knows, sanitized and prefixed
RECURSIVE GenreTags(_, _, _)
GenreTags(genre_ids, genre_mapping, media_type) ==
    LET Tag(hit) ==
            IF hit = <<>> THEN <<>>
            ELSE <<StrV(media_type \o "/" \o _sanitize_genre_name(hit[Len(hit)].name))>>
    IN  IF genre_ids = <<>> THEN <<>>
        ELSE Tag(SelectSeq(genre_mapping, LAMBDA g : g.id = Head(genre_ids)))
             \o GenreTags(Tail(genre_ids), genre_mapping, media_type)

\* the body get_metadata and get_metadata_by_id share: one detail fetch, then the
\* identifier, the runtime and the genre tags of the payload
MetadataOf(media_id, media_type, d, g, cache) ==
    LET Runtime(details) ==
            IF media_type = "movie"
            THEN (IF details.runtime # 0 THEN IntV(details.runtime) ELSE NoneV)
            ELSE (IF details.episode_run_time # <<>>
                  THEN IntV(details.episode_run_time[1]) ELSE NoneV)
        Identified(runtime) ==
            LET withId == <<[k |-> "tmdb_id", v |-> media_id],
                            [k |-> "tmdb_type", v |-> StrV(media_type)]>>
            IN  IF runtime = NoneV THEN withId ELSE Put(withId, "runtime", runtime)
        Tagged(metadata, genre_tags) ==
            IF genre_tags = <<>> THEN metadata
            ELSE Put(metadata, "genre_tags", ListV(genre_tags))
        WithGenres(det, metadata, gen) ==
            IF gen.raised
            THEN [raised |-> TRUE, metadata |-> <<>>, cache |-> gen.cache,
                  c |-> AddCalls(det.c, gen.c)]
            ELSE [raised |-> FALSE,
                  metadata |-> Tagged(metadata,
                                      GenreTags(det.details.genres, gen.genres, media_type)),
                  cache |-> gen.cache, c |-> AddCalls(det.c, gen.c)]
        WithDetails(det) ==
            IF det.raised
            THEN [raised |-> TRUE, metadata |-> <<>>, cache |-> cache, c |-> det.c]
            ELSE IF det.details.empty
            THEN [raised |-> FALSE, metadata |-> <<>>, cache |-> cache, c |-> det.c]
            ELSE IF det.details.genres = <<>>
            THEN [raised |-> FALSE, metadata |-> Identified(Runtime(det.details)),
                  cache |-> cache, c |-> det.c]
            ELSE WithGenres(det, Identified(Runtime(det.details)),
                            _get_genres(media_type, cache, g))
    IN  WithDetails(get_details(d))

NoMetadata(cache) == [raised |-> FALSE, metadata |-> <<>>, cache |-> cache, c |-> NoCalls]

\* get_metadata(search_result)
get_metadata(search_result, d, g, cache) ==
    IF search_result.media_type = "" \/ ~Truthy(search_result.id) THEN NoMetadata(cache)
    ELSE IF search_result.media_type \notin {"movie", "tv"} THEN NoMetadata(cache)
    ELSE MetadataOf(search_result.id, search_result.media_type, d, g, cache)

\* get_metadata_by_id(media_id, media_type)
get_metadata_by_id(media_id, media_type, d, g, cache) ==
    IF media_type \notin {"movie", "tv"} THEN NoMetadata(cache)
    ELSE MetadataOf(media_id, media_type, d, g, cache)

\* get_cover_url_by_id(media_id, media_type)
get_cover_url_by_id(media_id, media_type, d) ==
    LET WithDetails(det) ==
            IF det.raised THEN [raised |-> TRUE, cover_url |-> NoneV, c |-> det.c]
            ELSE IF det.details.empty \/ det.details.poster_path = ""
            THEN [raised |-> FALSE, cover_url |-> NoneV, c |-> det.c]
            ELSE [raised |-> FALSE,
                  cover_url |-> StrV(image_base_url \o det.details.poster_path),
                  c |-> det.c]
    IN  IF media_type \notin {"movie", "tv"}
        THEN [raised |-> FALSE, cover_url |-> NoneV, c |-> NoCalls]
        ELSE WithDetails(get_details(d))

get_cover_and_metadata_by_id_NeedsPoster(media_id, media_type, d1, d2, g, cache) ==
    LET WithMetadata(det, md) ==
            [raised |-> md.raised,
             cover_url |-> StrV(image_base_url \o det.details.poster_path),
             metadata |-> md.metadata, cache |-> md.cache, c |-> AddCalls(det.c, md.c)]
        WithDetails(det) ==
            IF det.raised
            THEN [raised |-> TRUE, cover_url |-> NoneV, metadata |-> <<>>,
                  cache |-> cache, c |-> det.c]
            ELSE IF det.details.empty \/ det.details.poster_path = ""
            THEN [raised |-> FALSE, cover_url |-> NoneV, metadata |-> <<>>,
                  cache |-> cache, c |-> det.c]
            ELSE WithMetadata(det, get_metadata([media_type |-> media_type,
                                                 id |-> media_id], d2, g, cache))
    IN  IF media_type \notin {"movie", "tv"}
        THEN [raised |-> FALSE, cover_url |-> NoneV, metadata |-> <<>>, cache |-> cache,
              c |-> NoCalls]
        ELSE WithDetails(get_details(d1))

\* get_cover_and_metadata_by_id(media_id, media_type): one detail fetch for the
\* poster, then get_metadata with its own detail fetch
get_cover_and_metadata_by_id(media_id, media_type, d1, d2, g, cache) ==
    LET WithMetadata(det, md) ==
            [raised |-> md.raised,
             cover_url |-> IF det.details.poster_path # ""
                           THEN StrV(image_base_url \o det.details.poster_path)
                           ELSE NoneV,
             metadata |-> md.metadata, cache |-> md.cache, c |-> AddCalls(det.c, md.c)]
        WithDetails(det) ==
            IF det.raised
            THEN [raised |-> TRUE, cover_url |-> NoneV, metadata |-> <<>>,
                  cache |-> cache, c |-> det.c]
            ELSE IF det.details.empty
            THEN [raised |-> FALSE, cover_url |-> NoneV, metadata |-> <<>>,
                  cache |-> cache, c |-> det.c]
            ELSE WithMetadata(det, get_metadata([media_type |-> media_type,
                                                 id |-> media_id], d2, g, cache))
    IN  IF media_type \notin {"movie", "tv"}
        THEN [raised |-> FALSE, cover_url |-> NoneV, metadata |-> <<>>, cache |-> cache,
              c |-> NoCalls]
        ELSE WithDetails(get_details(d1))

\* download_and_resize_image(image_url, save_path): True when the image was saved,
\* False when the response is no image that can be opened and saved
download_and_resize_image(o) ==
    [raised |-> Raises(o), saved |-> ~Raises(o) /\ o.resp,
     c |-> [NoCalls EXCEPT !.image = 1, !.image_http = Attempts(o),
                         !.status_retries = StatusRetries(o)]]

---------------------------------------------------------------------------
(* tui.select_tmdb_result and cli._fetch_required_data                     *)

\* select_tmdb_result(title, results): the user picks a card, presses Skip, or
\* presses Stop Processing. StopProcessing is raised inside the button handler of
\* the running app; it either leaves app.run() or ends the app with no result
select_tmdb_result(results, p) ==
    CASE p.kind = "select" -> [raised |-> FALSE, selected |-> <<results[p.k]>>]
      [] p.kind = "skip" -> [raised |-> FALSE, selected |-> <<>>]
      [] p.kind = "stop" -> [raised |-> p.propagates, selected |-> <<>>]

\* what _fetch_required_data leaves: the pair it returns or the exception it lets
\* through, the genre cache, the calls made, the candidates shown to the picker, and
\* whether Stop Processing was pressed
Fetched(image_url, metadata, cache, c) ==
    [raised |-> FALSE, stop |-> FALSE, image_url |-> image_url, metadata |-> metadata,
     cache |-> cache, c |-> c, shown |-> <<>>]

FetchRaised(cache, c) ==
    [raised |-> TRUE, stop |-> FALSE, image_url |-> NoneV, metadata |-> <<>>,
     cache |-> cache, c |-> c, shown |-> <<>>]

\* the branch of _fetch_required_data with a stored identifier (direct lookup)
FetchById(frontmatter, needs, env, cache) ==
    LET tmdb_id == get_tmdb_id(frontmatter)
        tmdb_type == get_tmdb_type(frontmatter).s
        Image(cover_url) ==
            IF has_external_cover(frontmatter) THEN get_existing_cover_url(frontmatter)
            ELSE cover_url
        Both(r) ==
            IF r.raised THEN FetchRaised(r.cache, r.c)
            ELSE Fetched(Image(r.cover_url), r.metadata, r.cache, r.c)
        WithMetadata(image_url, c, md) ==
            IF md.raised THEN FetchRaised(md.cache, AddCalls(c, md.c))
            ELSE Fetched(image_url, md.metadata, md.cache, AddCalls(c, md.c))
        WithCover(cu) ==
            IF cu.raised THEN FetchRaised(cache, cu.c)
            ELSE WithMetadata(cu.cover_url, cu.c,
                              get_metadata_by_id(tmdb_id, tmdb_type, env.d2, env.g, cache))
    IN  IF ~needs.needs_cover /\ ~needs.needs_metadata /\ ~needs.needs_tmdb_id
        THEN Fetched(NoneV, <<>>, cache, NoCalls)
        ELSE IF needs.needs_cover /\ needs.needs_metadata
        THEN Both(get_cover_and_metadata_by_id(tmdb_id, tmdb_type, env.d1, env.d2, env.g,
                                               cache))
        ELSE IF needs.needs_cover /\ has_external_cover(frontmatter)
        THEN WithMetadata(get_existing_cover_url(frontmatter), NoCalls,
                          get_metadata_by_id(tmdb_id, tmdb_type, env.d1, env.g, cache))
        ELSE IF needs.needs_cover
        THEN WithCover(get_cover_url_by_id(tmdb_id, tmdb_type, env.d1))
        ELSE IF needs.needs_metadata
        THEN WithMetadata(NoneV, NoCalls,
                          get_metadata_by_id(tmdb_id, tmdb_type, env.d1, env.g, cache))
        ELSE Fetched(NoneV, <<>>, cache, NoCalls)

\* the branch of _fetch_required_data that searches by title
FetchBySearch(frontmatter, needs, env, cache) ==
    LET Image(cover_url) ==
            IF ~needs.needs_cover THEN NoneV
            ELSE IF has_external_cover(frontmatter)
            THEN get_existing_cover_url(frontmatter)
            ELSE cover_url
        WithMetadata(selected_result, c, md) ==
            IF md.raised THEN FetchRaised(md.cache, AddCalls(c, md.c))
            ELSE Fetched(Image(StrV(image_base_url \o selected_result.poster_path)),
                         md.metadata, md.cache, AddCalls(c, md.c))
        Selected(selected_result, c) ==
            IF selected_result.poster_path = "" THEN Fetched(NoneV, <<>>, cache, c)
            ELSE WithMetadata(selected_result, c,
                              get_metadata(selected_result, env.d1, env.g, cache))
        Picked(results, c, pick) ==
            [(IF pick.raised THEN [FetchRaised(cache, c) EXCEPT !.stop = TRUE]
              ELSE IF pick.selected = <<>>
              THEN [Fetched(NoneV, <<>>, cache, c) EXCEPT !.stop = (env.picker.kind = "stop")]
              ELSE Selected(pick.selected[1], c))
                EXCEPT !.shown = results]
        Searched(sr) ==
            IF sr.raised THEN FetchRaised(cache, sr.c)
            ELSE IF sr.results = <<>> THEN Fetched(NoneV, <<>>, cache, sr.c)
            ELSE IF Len(sr.results) = 1 THEN Selected(sr.results[1], sr.c)
            ELSE Picked(sr.results, [sr.c EXCEPT !.picker = 1],
                        select_tmdb_result(sr.results, env.picker))
    IN  Searched(search_multi(env.search, 10))

UsesStoredId_IgnoresForce(frontmatter, force) ==
    /\ Truthy(get_tmdb_id(frontmatter))
    /\ Truthy(get_tmdb_type(frontmatter))

\* the test that chooses the branch: a stored identifier and no force flag
UsesStoredId(frontmatter, force) ==
    /\ Truthy(get_tmdb_id(frontmatter))
    /\ Truthy(get_tmdb_type(frontmatter))
    /\ ~force

_fetch_required_data(frontmatter, needs, force, env, cache) ==
    IF UsesStoredId(frontmatter, force)
    THEN FetchById(frontmatter, needs, env, cache)
    ELSE FetchBySearch(frontmatter, needs, env, cache)

---------------------------------------------------------------------------
(* ObsidianNoteUpdater: title, cover path, frontmatter updates             *)

\* str(value) as an f-string formats it
PyStr(v) ==
    CASE v.t = "str" -> v.s
      [] v.t = "int" -> IntStr(v.n)
      [] v.t = "bool" -> (IF v.b THEN "True" ELSE "False")
      [] v.t = "none" -> "None"
      [] v.t = "list" -> "[]"

\* the 0-based positions of s from i on
From(s, i) == {j \in 0..Len(s) - 1 : j >= i}

Min(S) == CHOOSE x \in S : \A y \in S : x <= y
Max(S) == CHOOSE x \in S : \A y \in S : y <= x

\* the end of the line that holds the 0-based position i
LineEnd(s, i) == Min({j \in From(s, i) : At(s, j + 1) = "\n"} \cup {Len(s)})

\* the number of whitespace characters from the 0-based position i on
WsRun(s, i) == Min({j \in From(s, i) : At(s, j + 1) \notin Whitespace} \cup {Len(s)}) - i

\* re.search(r"^#\s+(.+)$", body, re.MULTILINE) tried at the 0-based position i: the
\* whitespace characters the match takes after the "#" (0 when there is no match
\* here): as many as leave a character of the same line for the group
H1At(body, i) ==
    IF At(body, i + 1) # "#" \/ (i > 0 /\ At(body, i) # "\n") THEN 0
    ELSE Max({k \in 1..WsRun(body, i + 1) :
                 i + 1 + k < Len(body) /\ At(body, i + 2 + k) # "\n"} \cup {0})

\* the group of the first match in the body, as a one-element sequence
H1Search(body) ==
    LET Matches == {i \in From(body, 0) : H1At(body, i) > 0}
        Group(i, k) == <<Slice(body, i + 1 + k, LineEnd(body, i + 1 + k))>>
        First(i) == Group(i, H1At(body, i))
    IN  IF Matches = {} THEN <<>> ELSE First(Min(Matches))

\* get_title(): the frontmatter title (whatever value it holds), else the first H1
\* heading, else the file stem
get_title(n, stem) ==
    LET Heading(h1_match) ==
            IF h1_match # <<>> THEN StrV(lstrip(rstrip(h1_match[1]))) ELSE StrV(stem)
    IN  IF Truthy(Get(n.frontmatter, "title")) THEN Get(n.frontmatter, "title")
        ELSE Heading(H1Search(n.body))

\* utils.sanitize_filename: the characters a file name cannot hold are dropped
UnsafeChars == {"<", ">", ":", "\"", "/", "|", "?", "*"}

RECURSIVE sanitize_filename(_)
sanitize_filename(name) ==
    IF name = "" THEN ""
    ELSE (IF At(name, 1) \in UnsafeChars THEN "" ELSE At(name, 1))
         \o sanitize_filename(SliceFrom(name, 1))

\* utils.create_attachments_dir(vault_path): the directory under the vault
attachments_dir == "attachments"

\* generate_local_cover_path and get_relative_cover_path for a note in the vault
\* directory
get_relative_cover_path(title) ==
    attachments_dir \o "/" \o sanitize_filename(PyStr(title) \o " - cover.jpg")

update_cover_Forgets(frontmatter, cover_path) == frontmatter

\* update_cover(cover_path), before the save
update_cover(frontmatter, cover_path) == Put(frontmatter, "cover", StrV(cover_path))

\* list(set(tags)) and sort(): the entries without duplicates in ascending order;
\* a list entry cannot be hashed and entries of mixed kinds cannot be compared
Entries(tags) == {tags[i] : i \in 1..Len(tags)}

Sortable(S) ==
    /\ \A v \in S : v.t # "list"
    /\ \/ Cardinality(S) <= 1
       \/ \A v \in S : v.t = "str"
       \/ \A v \in S : v.t = "int"

ValueLess(a, b) == IF a.t = "str" THEN StrLess(a.s, b.s) ELSE a.n < b.n

RECURSIVE SortSet(_)
SortSet(S) ==
    LET Least(m) == <<m>> \o SortSet(S \ {m})
    IN  IF S = {} THEN <<>>
        ELSE Least(CHOOSE x \in S : \A y \in S \ {x} : ValueLess(x, y))

\* update_metadata writing every one of its fields, None for those the input lacks
update_metadata_AllFields(frontmatter, metadata) ==
    LET Copy(f, key) == Put(f, key, Get(metadata, key))
        Ids(f) == Copy(Copy(f, "tmdb_id"), "tmdb_type")
        Merged(f, S) ==
            IF Sortable(S)
            THEN [raised |-> FALSE, frontmatter |-> Ids(Put(f, "tags", ListV(SortSet(S))))]
            ELSE [raised |-> TRUE, frontmatter |-> f]
        Merge(f, stored) ==
            Merged(f, Entries((IF IsList(stored) THEN stored.l ELSE <<>>)
                              \o GetDefault(metadata, "genre_tags", ListV(<<>>)).l))
    IN  Merge(Copy(Copy(frontmatter, "runtime"), "total_episodes"),
              GetDefault(frontmatter, "tags", ListV(<<>>)))

\* update_metadata(metadata), before the save: raised stands for the TypeError of
\* the tag merge
update_metadata(frontmatter, metadata) ==
    LET Copy(f, key, to) ==
            IF HasKey(metadata, key) THEN Put(f, to, Get(metadata, key)) ELSE f
        Ids(f) == Copy(Copy(f, "tmdb_id", "tmdb_id"), "tmdb_type", "tmdb_type")
        Merged(f, S) ==
            IF Sortable(S)
            THEN [raised |-> FALSE, frontmatter |-> Ids(Put(f, "tags", ListV(SortSet(S))))]
            ELSE [raised |-> TRUE, frontmatter |-> f]
        Merge(f, stored) ==
            Merged(f, Entries((IF IsList(stored) THEN stored.l ELSE <<>>)
                              \o Get(metadata, "genre_tags").l))
        Tags(f) ==
            IF HasKey(metadata, "genre_tags")
            THEN Merge(f, GetDefault(f, "tags", ListV(<<>>)))
            ELSE [raised |-> FALSE, frontmatter |-> Ids(f)]
    IN  Tags(Copy(Copy(frontmatter, "runtime", "runtime"),
                  "total_episodes", "total_episodes"))

\* update_tags(new_tags), before the save
update_tags(frontmatter, new_tags) ==
    LET Merged(S) ==
            IF Sortable(S)
            THEN [raised |-> FALSE, frontmatter |-> Put(frontmatter, "tags", ListV(SortSet(S)))]
            ELSE [raised |-> TRUE, frontmatter |-> frontmatter]
        Merge(stored) ==
            Merged(Entries((IF IsList(stored) THEN stored.l ELSE <<>>) \o new_tags))
    IN  Merge(GetDefault(frontmatter, "tags", ListV(<<>>)))

---------------------------------------------------------------------------
(* SpecTags: update_metadata and update_tags called on one note            *)

MaxUpdates == 2

\* the frontmatter blocks of the notes: no tags, an empty list, lists in and out of
\* order and with repeats, a list that already holds genre tags, a single tag
\* written as a scalar, a list with a number in it
TagBlocks ==
    {"title: Foo",
     "tags: []",
     "tags:\n- b\n- a\n- b",
     "title: Foo\ntags: [a, movie/Action]\nruntime: 90",
     "tags: [tv/Drama, movie/Action, Zed]",
     "cover: attachments/Foo - cover.jpg\ntmdb_id: 5\ntmdb_type: tv\ntags: [a]\nrating: 4",
     "tags: favorite",
     "tags: [1, x]"}

\* the genre_tags lists get_metadata builds
GenreTagLists ==
    {<<>>,
     <<"movie/Action">>,
     <<"movie/Science-Fiction", "movie/Action">>,
     <<"tv/Drama", "tv/Action-and-Adventure">>}

StrList(l) == ListV([i \in 1..Len(l) |-> StrV(l[i])])

\* the metadata dicts handed to update_metadata
Metadatas ==
    {<<[k |-> "genre_tags", v |-> StrList(g)]>> : g \in GenreTagLists}
    \cup {<<[k |-> "runtime", v |-> IntV(136)], [k |-> "genre_tags", v |-> StrList(g)],
           [k |-> "tmdb_id", v |-> IntV(603)], [k |-> "tmdb_type", v |-> StrV("movie")]>> :
            g \in GenreTagLists}
    \cup {<<[k |-> "runtime", v |-> IntV(136)]>>,
          <<[k |-> "runtime", v |-> IntV(45)], [k |-> "total_episodes", v |-> IntV(24)],
            [k |-> "tmdb_id", v |-> IntV(1399)], [k |-> "tmdb_type", v |-> StrV("tv")]>>,
          <<>>}

InitTags ==
    /\ \E b \in TagBlocks :
        /\ disk = <<Delim \o b \o Closing \o "text\n">>
        /\ note = NewNote(1, disk[1])
    /\ hist = [op |-> "init", updates |-> 0, raised |-> FALSE,
               new |-> NoneV, prevNew |-> NoneV,
               before |-> note.frontmatter, prevBefore |-> note.frontmatter,
               metadata |-> <<>>, body |-> note.body, written |-> 0]
    /\ run = RunIdle

\* the record of a call: res is what it left, new the tags it was to merge, written
\* the number of times the call wrote the file
TagsCalled(res, op, new, metadata) ==
    [op |-> op, updates |-> hist.updates + 1, raised |-> res.raised,
     new |-> new, prevNew |-> hist.new,
     before |-> note.frontmatter, prevBefore |-> hist.before,
     metadata |-> metadata, body |-> note.body,
     written |-> IF res.raised THEN 0 ELSE 1]

\* note.update_metadata(metadata): the save is reached when the merge did not raise
UpdateMetadataCall(metadata) ==
    /\ hist.updates < MaxUpdates
    /\ LET Left(res) ==
               /\ note' = [note EXCEPT !.frontmatter = res.frontmatter]
               /\ disk' = IF res.raised THEN disk ELSE _save_file(disk, note')
               /\ hist' = TagsCalled(res, "update_metadata",
                                     IF HasKey(metadata, "genre_tags")
                                     THEN Get(metadata, "genre_tags") ELSE NoneV,
                                     metadata)
       IN  Left(update_metadata(note.frontmatter, metadata))
    /\ UNCHANGED run

\* note.update_tags(new_tags)
UpdateTagsCall(new_tags) ==
    /\ hist.updates < MaxUpdates
    /\ LET Left(res) ==
               /\ note' = [note EXCEPT !.frontmatter = res.frontmatter]
               /\ disk' = IF res.raised THEN disk ELSE _save_file(disk, note')
               /\ hist' = TagsCalled(res, "update_tags", StrList(new_tags), <<>>)
       IN  Left(update_tags(note.frontmatter, StrList(new_tags).l))
    /\ UNCHANGED run

NextTags ==
    \/ \E m \in Metadatas : UpdateMetadataCall(m)
    \/ \E g \in GenreTagLists : UpdateTagsCall(g)

SpecTags == InitTags /\ [][NextTags]_vars

---------------------------------------------------------------------------
(* content_builder.build_season_breakdown                                  *)
(* The bullet and the two emoji of the section are written in ASCII; a     *)
(* vote_average is held in tenths.                                         *)

Bullet == "*"
StarMark == "(star)"
CompleteMark == "(ok)"

\* f"{vote_avg:.1f}" of a vote average held in tenths
OneDecimal(tenths) == IntStr(tenths \div 10) \o "." \o IntStr(tenths % 10)

\* the name and the year the header of a season shows
SeasonName(season) ==
    GetDefault(season, "name",
               StrV("Season " \o IntStr(GetDefault(season, "season_number", IntV(0)).n))).s

SeasonYear(season) ==
    LET Year(air_date) == IF Truthy(air_date) THEN Slice(air_date.s, 0, 4) ELSE "TBA"
    IN  Year(GetDefault(season, "air_date", StrV("")))

SeasonHeader(season) == "### " \o SeasonName(season) \o " (" \o SeasonYear(season) \o ")"

\* the block of one season: is_latest is season == seasons[-1]
SeasonBlock(season, is_latest, in_production) ==
    LET vote_avg == GetDefault(season, "vote_average", IntV(0))
        overview == lstrip(rstrip(GetDefault(season, "overview", StrV("")).s))
        episode_count == GetDefault(season, "episode_count", IntV(0))
        poster_path == GetDefault(season, "poster_path", StrV(""))
    IN  SeasonHeader(season)
        \o (IF Truthy(vote_avg)
            THEN " " \o Bullet \o " " \o StarMark \o " " \o OneDecimal(vote_avg.n) \o "/10"
            ELSE "")
        \o "\n\n"
        \o (IF Truthy(poster_path)
            THEN "![" \o SeasonName(season) \o "](https://image.tmdb.org/t/p/w300"
                 \o poster_path.s \o ")\n\n"
            ELSE "")
        \o (IF overview # "" THEN "_" \o overview \o "_\n\n" ELSE "")
        \o "**Episodes:** " \o IntStr(episode_count.n)
        \o (IF is_latest /\ in_production
            THEN " " \o Bullet \o " **Status:** Currently Airing\n\n"
            ELSE " " \o Bullet \o " **Status:** " \o CompleteMark \o " Complete\n\n")
        \o "---\n\n"

\* the blocks of the seasons from the i-th on, in the order of the payload
RECURSIVE SeasonBlocks(_, _, _)
SeasonBlocks(seasons, i, in_production) ==
    IF i > Len(seasons) THEN ""
    ELSE SeasonBlock(seasons[i], seasons[i] = seasons[Len(seasons)], in_production)
         \o SeasonBlocks(seasons, i + 1, in_production)

\* build_season_breakdown(details)
build_season_breakdown(details) ==
    IF details.seasons = <<>> THEN ""
    ELSE rstrip("## Seasons\n\n" \o SeasonBlocks(details.seasons, 1, details.in_production))
         \o "\n"

---------------------------------------------------------------------------
(* SpecSeasons: build_season_breakdown on the payloads of a series         *)

MaxSeasons == 4

\* the seasons a payload is made of
SeasonPool ==
    {<<[k |-> "season_number", v |-> IntV(0)], [k |-> "name", v |-> StrV("Specials")],
       [k |-> "air_date", v |-> StrV("2007-12-01")], [k |-> "episode_count", v |-> IntV(2)]>>,
     <<[k |-> "season_number", v |-> IntV(1)], [k |-> "name", v |-> StrV("Season 1")],
       [k |-> "air_date", v |-> StrV("2008-01-20")], [k |-> "vote_average", v |-> IntV(81)],
       [k |-> "overview", v |-> StrV("A start. ")], [k |-> "episode_count", v |-> IntV(7)],
       [k |-> "poster_path", v |-> StrV("/p1.jpg")]>>,
     <<[k |-> "season_number", v |-> IntV(2)],
       [k |-> "air_date", v |-> StrV("2009-03-08")], [k |-> "episode_count", v |-> IntV(13)]>>,
     <<[k |-> "season_number", v |-> IntV(3)], [k |-> "name", v |-> StrV("Season 3")],
       [k |-> "air_date", v |-> StrV("")]>>}

\* the seasons lists of the payloads: every choice of seasons in every order
SeasonLists ==
    UNION {{l \in [1..n -> SeasonPool] : \A i, j \in 1..n : i # j => l[i] # l[j]} :
              n \in 0..MaxSeasons}

InitSeasons ==
    /\ \E l \in SeasonLists, p \in BOOLEAN :
        hist = [op |-> "init", details |-> [seasons |-> l, in_production |-> p],
                section |-> ""]
    /\ disk = <<>>
    /\ note = NoNote
    /\ run = RunIdle

\* section = build_season_breakdown(details)
BuildSeasonBreakdown ==
    /\ hist.op = "init"
    /\ hist' = [hist EXCEPT !.op = "build_season_breakdown",
                            !.section = build_season_breakdown(hist.details)]
    /\ UNCHANGED <<disk, note, run>>

NextSeasons == BuildSeasonBreakdown

SpecSeasons == InitSeasons /\ [][NextSeasons]_vars

---------------------------------------------------------------------------
(* SpecGenre: _sanitize_genre_name on the names of a genre list            *)

MaxNameLen == 4

\* the characters of the names: the four the function acts on, the hyphen and a letter
NameChars == {"&", "#", "/", " ", "-", "a"}

RECURSIVE NamesOfLen(_)
NamesOfLen(n) ==
    IF n = 0 THEN {""} ELSE {c \o w : c \in NameChars, w \in NamesOfLen(n - 1)}

\* every name of up to MaxNameLen characters, and names of the service
GenreNames ==
    UNION {NamesOfLen(n) : n \in 0..MaxNameLen}
    \cup {"Sci-Fi & Fantasy", "Comedy/Drama", "Action & Adventure", "War & Politics",
          "Science Fiction", "-#1 Hits/"}

InitGenre ==
    /\ \E name \in GenreNames :
        hist = [op |-> "init", name |-> name, sanitized |-> ""]
    /\ disk = <<>>
    /\ note = NoNote
    /\ run = RunIdle

\* sanitized = fetcher._sanitize_genre_name(name)
SanitizeGenreName ==
    /\ hist.op = "init"
    /\ hist' = [hist EXCEPT !.op = "_sanitize_genre_name",
                            !.sanitized = _sanitize_genre_name(hist.name)]
    /\ UNCHANGED <<disk, note, run>>

NextGenre == SanitizeGenreName

SpecGenre == InitGenre /\ [][NextGenre]_vars

---------------------------------------------------------------------------
(* cli._generate_body_content                                              *)

\* _generate_body_content(fetcher, note, sections, force) on the note read again:
\* o is the full-details fetch (get_full_movie_details / get_full_tv_details) with
\* o.resp the text build_tmdb_content makes of its payload, "" when the payload or
\* the text is empty; every exception is caught and gives False
_generate_body_content(n, o) ==
    IF ~Truthy(get_tmdb_id(n.frontmatter)) \/ ~Truthy(get_tmdb_type(n.frontmatter))
    THEN [ok |-> FALSE, note |-> n, c |-> [NoCalls EXCEPT !.read = 1]]
    ELSE IF Raises(o) \/ o.resp = ""
    THEN [ok |-> FALSE, note |-> n,
          c |-> [NoCalls EXCEPT !.read = 1, !.detail = 1, !.detail_http = Attempts(o),
                         !.status_retries = StatusRetries(o)]]
    ELSE [ok |-> TRUE, note |-> [n EXCEPT !.body = update_body_content(n.body, o.resp)],
          c |-> [NoCalls EXCEPT !.read = 1, !.detail = 1, !.detail_http = Attempts(o),
                         !.status_retries = StatusRetries(o),
                                !.write = 1]]

---------------------------------------------------------------------------
(* Spec: cli.main over the note files of a vault                           *)

FileNames == <<"Heat.md", "Dune.md">>

\* Path(file_path).stem
Stem(path) == Slice(FileNames[path], 0, Len(FileNames[path]) - 3)

\* the note files a vault can hold
NoteTexts ==
    <<"# Heat\n",
      "---\ncover: attachments/Dune - cover.jpg\nruntime: 155\ntags:\n- movie/Action\ntmdb_id: 603\ntmdb_type: movie\n---\nbody\n",
      "---\ntitle: Dune\ncover: https://x/y.jpg\ntmdb_id: 1399\ntmdb_type: tv\n---\n",
      "---\ncover: '#1A2B3C'\nruntime: 100\ntags: [tv/Drama]\ntmdb_id: 1399\ntmdb_type: tv\n---\n",
      "---\ncover: attachments/a.jpg\ntags: [b, a]\ntmdb_id: 603\ntmdb_type: movie\n---\n",
      "---\ntags: [7]\n---\ntext\n",
      "---\ntags:\n---\n# T\n",
      "---\ntmdb_id: 603\ntmdb_type: movie\n---\n",
      "---\ncover: http://x/z.png\n---\n">>

\* the vaults: which of the note files the two files of the vault are
VaultsAnyFlags ==
    {<<1, 7>>, <<3, 7>>, <<4, 7>>, <<5, 7>>, <<6, 7>>, <<7, 1>>, <<7, 2>>, <<8, 7>>,
     <<9, 7>>}
VaultsNoForce == {<<2, 1>>, <<5, 4>>}

\* the vault of the runs with a configuration error
ErrorVault == <<1, 7>>

\* the command lines and their environment: the API key, what the path argument
\* is, the flags, the vault
Invocations ==
    {[api_key |-> TRUE, path |-> "dir", force |-> f, generate_content |-> g, vault |-> v] :
        f \in BOOLEAN, g \in BOOLEAN, v \in VaultsAnyFlags}
    \cup
    {[api_key |-> TRUE, path |-> "dir", force |-> FALSE, generate_content |-> g,
      vault |-> v] : g \in BOOLEAN, v \in VaultsNoForce}
    \cup
    {[api_key |-> k, path |-> p, force |-> FALSE, generate_content |-> FALSE,
      vault |-> ErrorVault] :
        k \in BOOLEAN, p \in {"dir", "file_md", "missing", "file_txt", "dir_empty", "other"}}

\* the responses of the external service
R1 == [media_type |-> "movie", id |-> IntV(603), poster_path |-> "/m.jpg"]
R2 == [media_type |-> "tv", id |-> IntV(1399), poster_path |-> "/t.jpg"]
RPerson == [media_type |-> "person", id |-> IntV(7), poster_path |-> "/p.jpg"]
RNoPoster == [media_type |-> "movie", id |-> IntV(8), poster_path |-> ""]

DMovie == [empty |-> FALSE, poster_path |-> "/m.jpg", runtime |-> 136,
           episode_run_time |-> <<>>, genres |-> <<28, 878>>]
DTv == [empty |-> FALSE, poster_path |-> "/t.jpg", runtime |-> 0,
        episode_run_time |-> <<57>>, genres |-> <<10765, 99999>>]
DBare == [empty |-> FALSE, poster_path |-> "", runtime |-> 0,
          episode_run_time |-> <<>>, genres |-> <<>>]
DEmpty == [empty |-> TRUE, poster_path |-> "", runtime |-> 0,
           episode_run_time |-> <<>>, genres |-> <<>>]

\* a response with more entries that qualify than the search keeps
RMany == [i \in 1..12 |-> IF i = 3 THEN RPerson ELSE IF i % 2 = 0 THEN R2 ELSE R1]

GenreList ==
    <<[id |-> 28, name |-> "Action"], [id |-> 878, name |-> "Science Fiction"],
      [id |-> 10765, name |-> "Sci-Fi & Fantasy"]>>

SearchOutcomes ==
    {[fails |-> 0, err |-> "none", resp |-> <<>>],
     [fails |-> 0, err |-> "none", resp |-> <<R1>>],
     [fails |-> 0, err |-> "none", resp |-> <<R2, R1>>],
     [fails |-> 0, err |-> "none", resp |-> RMany],
     [fails |-> 2, err |-> "transport", resp |-> <<RPerson, RNoPoster, R2>>],
     [fails |-> 3, err |-> "http_4xx", resp |-> <<>>]}
PickerOutcomes ==
    {[kind |-> "select", k |-> 1, propagates |-> FALSE],
     [kind |-> "select", k |-> 2, propagates |-> FALSE],
     [kind |-> "skip", k |-> 0, propagates |-> FALSE],
     [kind |-> "stop", k |-> 0, propagates |-> TRUE],
     [kind |-> "stop", k |-> 0, propagates |-> FALSE]}
DetailOutcomes ==
    {[fails |-> 0, err |-> "none", resp |-> DMovie],
     [fails |-> 1, err |-> "http_4xx", resp |-> DTv],
     [fails |-> 0, err |-> "none", resp |-> DBare],
     [fails |-> 0, err |-> "none", resp |-> DEmpty],
     [fails |-> 3, err |-> "transport", resp |-> DEmpty]}
GenreOutcomes ==
    {[fails |-> 0, err |-> "none", resp |-> GenreList],
     [fails |-> 0, err |-> "none", resp |-> <<>>],
     [fails |-> 3, err |-> "transport", resp |-> <<>>]}
DownloadOutcomes ==
    {[fails |-> 2, err |-> "transport", resp |-> TRUE],
     [fails |-> 0, err |-> "none", resp |-> FALSE],
     [fails |-> 3, err |-> "http_4xx", resp |-> FALSE]}
ContentOutcomes ==
    {[fails |-> 0, err |-> "none", resp |-> "## Overview\n\ntext"],
     [fails |-> 0, err |-> "none", resp |-> ""],
     [fails |-> 3, err |-> "transport", resp |-> ""]}

NoSearch == [fails |-> 0, err |-> "none", resp |-> <<>>]
NoPick == [kind |-> "skip", k |-> 0, propagates |-> FALSE]
NoDetail == [fails |-> 0, err |-> "none", resp |-> DEmpty]

\* the locals of one loop iteration, before the note is read
NoLocals ==
    [title |-> NoneV, needs |-> NoNeeds, image_url |-> NoneV, metadata |-> <<>>,
     success |-> FALSE]

Tally(r) == [processed |-> r.processed, skipped |-> r.skipped, failed |-> r.failed]

\* what one detail fetch gave: the exception left after the last attempt, or the
\* payload
DetailSeen(d) ==
    IF Raises(d) THEN [raised |-> TRUE, resp |-> DEmpty]
    ELSE [raised |-> FALSE, resp |-> d.resp]

Init ==
    /\ \E inv \in Invocations :
          /\ disk = [j \in 1..Len(FileNames) |-> NoteTexts[inv.vault[j]]]
          /\ run = [pc |-> "start", api_key |-> inv.api_key, path |-> inv.path,
                    force |-> inv.force, generate_content |-> inv.generate_content,
                    md_files |-> <<>>, idx |-> 0, processed |-> 0, skipped |-> 0,
                    failed |-> 0, cache |-> <<>>, loc |-> NoLocals]
    /\ note = NoNote
    /\ hist = [op |-> "init", at |-> 0, calls |-> NoCalls, last |-> NoCalls,
               shown |-> <<>>, image_arg |-> NoneV, stopAt |-> 0,
               tallyAtStop |-> Tally(run), reported |-> <<>>,
               mkdir |-> FALSE, before |-> Tally(run), text |-> "",
               response |-> <<>>, results |-> <<>>, details |-> <<>>, exc |-> "none",
               download |-> "none", metadata |-> <<>>]

\* the calls c of a step, added to the calls made for the note of this iteration
Called(h, c) ==
    [h EXCEPT !.calls = AddCalls(@, [c EXCEPT !.search_http = 0, !.detail_http = 0,
                                              !.genres_http = 0, !.image_http = 0,
                                              !.status_retries = 0]),
              !.last = c]

\* the loop goes on to the next file, or leaves the loop after the last one
Advance(r) ==
    [r EXCEPT !.idx = @ + 1,
              !.pc = IF r.idx + 1 > Len(r.md_files) THEN "summary" ELSE "read",
              !.loc = NoLocals]

Fail_CountsTwice(r) == Advance([r EXCEPT !.failed = @ + 2])

Fail_Aborts(r) == [r EXCEPT !.failed = @ + 1, !.pc = "summary", !.loc = NoLocals]

\* except Exception: failed += 1
Fail(r) == Advance([r EXCEPT !.failed = @ + 1])

\* the step that follows the metadata and the cover of an iteration
AfterMetadata(r) == IF r.generate_content THEN "content" ELSE "tally"
AfterCover_SkipsMetadata(r) == AfterMetadata(r)
AfterCover(r) == IF r.loc.metadata # <<>> THEN "metadata" ELSE AfterMetadata(r)

Startup_NoKeyCheck ==
    /\ run.pc = "start"
    /\ run' = IF run.path \in {"missing", "file_txt", "dir_empty", "other"}
              THEN [run EXCEPT !.pc = "exit"]
              ELSE [run EXCEPT !.pc = "read", !.idx = 1,
                               !.md_files = IF run.path = "file_md" THEN <<1>>
                                            ELSE [j \in 1..Len(FileNames) |-> j]]
    /\ hist' = [hist EXCEPT !.op = "startup", !.mkdir = (run'.pc = "read")]
    /\ UNCHANGED <<disk, note>>

\* main up to the loop: the configuration checks, each ending the process with
\* exit status 1, then the file list
Startup ==
    /\ run.pc = "start"
    /\ run' = IF ~run.api_key \/ run.path \in {"missing", "file_txt", "dir_empty", "other"}
              THEN [run EXCEPT !.pc = "exit"]
              ELSE [run EXCEPT !.pc = "read", !.idx = 1,
                               !.md_files = IF run.path = "file_md" THEN <<1>>
                                            ELSE [j \in 1..Len(FileNames) |-> j]]
    /\ hist' = [hist EXCEPT !.op = "startup", !.mkdir = (run'.pc = "read")]
    /\ UNCHANGED <<disk, note>>

SkipsNote_WithContentFlag(needs, r) ==
    /\ ~needs.needs_cover
    /\ ~needs.needs_metadata
    /\ ~needs.needs_tmdb_id
    /\ ~r.force
    /\ r.generate_content

\* the test that skips a note: it needs nothing and neither flag is set
SkipsNote(needs, r) ==
    /\ ~needs.needs_cover
    /\ ~needs.needs_metadata
    /\ ~needs.needs_tmdb_id
    /\ ~r.force
    /\ ~r.generate_content

\* the head of an iteration: the note is read, its title and needs are computed, and
\* a note that needs nothing is skipped
ReadNote ==
    /\ run.pc = "read"
    /\ LET path == run.md_files[run.idx]
           Needing(n, needs) ==
               /\ note' = n
               /\ run' = IF needs.raised THEN Fail(run)
                         ELSE IF SkipsNote(needs, run)
                         THEN Advance([run EXCEPT !.skipped = @ + 1])
                         ELSE [run EXCEPT !.pc = "fetch",
                                          !.loc = [NoLocals EXCEPT
                                                      !.title = get_title(n, Stem(path)),
                                                      !.needs = needs]]
           Read(n) == Needing(n, _determine_processing_needs(n.frontmatter))
       IN  Read(NewNote(path, disk[path]))
    /\ hist' = [hist EXCEPT !.op = "read", !.at = run.idx,
                            !.calls = [NoCalls EXCEPT !.read = 1],
                            !.last = [NoCalls EXCEPT !.read = 1],
                            !.shown = <<>>, !.image_arg = NoneV,
                            !.before = Tally(run), !.text = disk[run.md_files[run.idx]],
                            !.response = <<>>, !.results = <<>>, !.details = <<>>,
                            !.download = "none", !.metadata = <<>>,
                            !.exc = IF run'.failed # run.failed THEN "boundary"
                                    ELSE "none"]
    /\ UNCHANGED disk

\* image_url, metadata = _fetch_required_data(...), and the except clause of the
\* loop when it raises
FetchRequiredData(env) ==
    LET Fetching(r) ==
            /\ run' = IF r.raised THEN Fail([run EXCEPT !.cache = r.cache])
                      ELSE [run EXCEPT !.cache = r.cache, !.loc.image_url = r.image_url,
                                       !.loc.metadata = r.metadata,
                                       !.pc = IF Truthy(r.image_url) THEN "cover"
                                              ELSE IF r.metadata # <<>> THEN "metadata"
                                              ELSE AfterMetadata(run)]
            /\ hist' = [Called(hist, r.c)
                           EXCEPT !.op = "fetch", !.shown = r.shown,
                                  !.response = IF r.c.search = 0 \/ Raises(env.search)
                                               THEN <<>> ELSE env.search.resp,
                                  !.results = IF r.c.search = 0 THEN <<>>
                                              ELSE search_multi(env.search, 10).results,
                                  !.details = SubSeq(<<DetailSeen(env.d1),
                                                       DetailSeen(env.d2)>>, 1, r.c.detail),
                                  !.exc = IF r.raised THEN "boundary" ELSE "none",
                                  !.metadata = r.metadata,
                                  !.stopAt = IF r.stop /\ @ = 0 THEN run.idx ELSE @,
                                  !.tallyAtStop = IF r.stop /\ hist.stopAt = 0
                                                  THEN Tally(run) ELSE @]
    IN  /\ Fetching(_fetch_required_data(note.frontmatter, run.loc.needs, run.force, env,
                                         run.cache))
        /\ UNCHANGED <<disk, note>>

\* the fetch of a note with a stored identifier
FetchStoredId ==
    /\ run.pc = "fetch"
    /\ UsesStoredId(note.frontmatter, run.force)
    /\ \E d1 \in DetailOutcomes, d2 \in DetailOutcomes, g \in GenreOutcomes :
          FetchRequiredData([search |-> NoSearch, picker |-> NoPick, d1 |-> d1,
                             d2 |-> d2, g |-> g])

\* the fetch of a note by title search, with the picker when there are candidates
\* to choose from
FetchSearch ==
    /\ run.pc = "fetch"
    /\ ~UsesStoredId(note.frontmatter, run.force)
    /\ \E s \in SearchOutcomes, p \in PickerOutcomes, d1 \in DetailOutcomes,
          g \in GenreOutcomes :
          /\ p.kind = "select" => p.k <= Len(search_multi(s, 10).results)
          /\ FetchRequiredData([search |-> s, picker |-> p, d1 |-> d1, d2 |-> NoDetail,
                                g |-> g])

\* if image_url: the download, and update_cover with the relative path when the
\* image was saved
DownloadCover ==
    /\ run.pc = "cover"
    /\ \E o \in DownloadOutcomes :
          LET Covered(dl, updated) ==
                  /\ note' = IF dl.saved THEN updated ELSE note
                  /\ disk' = IF dl.saved THEN _save_file(disk, updated) ELSE disk
                  /\ run' = IF dl.raised THEN Fail(run)
                            ELSE [run EXCEPT !.loc.success = dl.saved,
                                             !.pc = AfterCover(run)]
                  /\ hist' = [Called(hist, [dl.c EXCEPT !.write = IF dl.saved THEN 1 ELSE 0])
                                 EXCEPT !.op = "cover", !.image_arg = run.loc.image_url,
                                        !.download = IF dl.raised THEN "raised"
                                                     ELSE IF dl.saved THEN "saved"
                                                     ELSE "false",
                                        !.exc = IF dl.raised THEN "boundary" ELSE "none"]
          IN  Covered(download_and_resize_image(o),
                      [note EXCEPT !.frontmatter =
                          update_cover(@, get_relative_cover_path(run.loc.title))])

\* if metadata: note.update_metadata(metadata); the TypeError of the tag merge
\* leaves the file as it is
UpdateMetadata ==
    /\ run.pc = "metadata"
    /\ LET Updated(um) ==
               /\ note' = [note EXCEPT !.frontmatter = um.frontmatter]
               /\ disk' = IF um.raised THEN disk ELSE _save_file(disk, note')
               /\ run' = IF um.raised THEN Fail(run)
                         ELSE [run EXCEPT !.loc.success = @ \/ ~run.loc.needs.needs_cover,
                                          !.pc = AfterMetadata(run)]
               /\ hist' = [Called(hist, [NoCalls EXCEPT
                                            !.write = IF um.raised THEN 0 ELSE 1])
                              EXCEPT !.op = "metadata",
                                     !.exc = IF um.raised THEN "boundary" ELSE "none"]
       IN  Updated(update_metadata(note.frontmatter, run.loc.metadata))

\* if args.generate_content: the note is read again and _generate_body_content runs
GenerateContent ==
    /\ run.pc = "content"
    /\ \E o \in ContentOutcomes :
          LET Generated(gc) ==
                  /\ note' = gc.note
                  /\ disk' = IF gc.ok THEN _save_file(disk, gc.note) ELSE disk
                  /\ run' = [run EXCEPT !.loc.success = @ \/ gc.ok, !.pc = "tally"]
                  /\ hist' = [Called(hist, gc.c)
                                 EXCEPT !.op = "content",
                                        !.exc = IF gc.c.detail = 1 /\ Raises(o)
                                                THEN "inside" ELSE "none"]
          IN  Generated(_generate_body_content(
                            NewNote(run.md_files[run.idx], disk[run.md_files[run.idx]]), o))

\* the end of an iteration: the note counts as processed or as failed
TallyNote ==
    /\ run.pc = "tally"
    /\ run' = IF \/ run.loc.success
                 \/ (Truthy(run.loc.image_url) /\ ~run.loc.needs.needs_metadata)
                 \/ (run.loc.metadata # <<>> /\ ~run.loc.needs.needs_cover)
              THEN Advance([run EXCEPT !.processed = @ + 1])
              ELSE Advance([run EXCEPT !.failed = @ + 1])
    /\ hist' = [hist EXCEPT !.op = "tally"]
    /\ UNCHANGED <<disk, note>>

\* after the loop: the summary is printed
Summary ==
    /\ run.pc = "summary"
    /\ run' = [run EXCEPT !.pc = "done"]
    /\ hist' = [hist EXCEPT !.op = "summary", !.reported = <<Tally(run)>>]
    /\ UNCHANGED <<disk, note>>

Next ==
    \/ Startup
    \/ ReadNote
    \/ FetchStoredId
    \/ FetchSearch
    \/ DownloadCover
    \/ UpdateMetadata
    \/ GenerateContent
    \/ TallyNote
    \/ Summary

Spec == Init /\ [][Next]_vars

---------------------------------------------------------------------------
(* SpecRerun: cli.main on one note file, and once more on the file it left *)

\* the note files of the first run: without frontmatter, with an external cover, with
\* a placeholder cover, with an identifier only, with tags of its own
RerunNotes == {1, 3, 4, 5, 8}

\* what hist holds before a run
HistAtStart(r) ==
    [op |-> "init", at |-> 0, calls |-> NoCalls, last |-> NoCalls,
     shown |-> <<>>, image_arg |-> NoneV, stopAt |-> 0,
     tallyAtStop |-> Tally(r), reported |-> <<>>,
     mkdir |-> FALSE, before |-> Tally(r), text |-> "",
     response |-> <<>>, results |-> <<>>, details |-> <<>>, exc |-> "none",
     download |-> "none", metadata |-> <<>>]

\* a process started on the one file: its counters at zero, its genre cache empty
Started(force, generate_content) ==
    [pc |-> "start", api_key |-> TRUE, path |-> "file_md",
     force |-> force, generate_content |-> generate_content,
     md_files |-> <<>>, idx |-> 0, processed |-> 0, skipped |-> 0,
     failed |-> 0, cache |-> <<>>, loc |-> NoLocals]

NoFirstRun ==
    [tally |-> Tally(Started(FALSE, FALSE)), download |-> "none", metadata |-> <<>>,
     disk |-> <<>>]

InitRerun ==
    /\ \E t \in RerunNotes, f \in BOOLEAN, g \in BOOLEAN :
          /\ disk = [j \in 1..Len(FileNames) |-> NoteTexts[t]]
          /\ run = Started(f, g)
    /\ note = NoNote
    /\ hist = HistAtStart(run) @@ [round |-> 1, first |-> NoFirstRun]

\* the program is started again on the same file, with neither flag: hist keeps what
\* the first run did to the note
Rerun ==
    /\ run.pc = "done"
    /\ hist.round = 1
    /\ run' = Started(FALSE, FALSE)
    /\ hist' = HistAtStart(run')
               @@ [round |-> 2,
                   first |-> [tally |-> Tally(run), download |-> hist.download,
                              metadata |-> hist.metadata, disk |-> disk]]
    /\ note' = NoNote
    /\ UNCHANGED disk

NextRerun ==
    \/ Next
    \/ Rerun

SpecRerun == InitRerun /\ [][NextRerun]_vars

---------------------------------------------------------------------------
(* SpecTitle: get_title on notes with and without a title, a heading       *)

\* the frontmatter of the notes: none, one without title, titles that are a string,
\* a number, empty and null
TitleHeaders ==
    {"",
     "---\ntags: [a]\n---\n",
     "---\ntitle: Foo\n---\n",
     "---\ntitle: Frontmatter Title\nruntime: 90\n---\n",
     "---\ntitle: 2001\n---\n",
     "---\ntitle: ''\n---\n",
     "---\ntitle:\n---\n"}

\* the bodies: no heading, a first-level heading at the top and further down, two of
\* them, headings of the second level, a tag, a "#" with nothing after it on its line
TitleBodies ==
    {"",
     "Some content without title\n",
     "# Heading Title\nSome content",
     "text\n#  Padded \nmore\n",
     "# One\n\n# Two\n",
     "## Sub\n#Tag\n",
     "## Sub\n# Late\n",
     "#\nfoo\n",
     "# \n## Sub\n# Real\n"}

InitTitle ==
    /\ \E h \in TitleHeaders, b \in TitleBodies, path \in 1..Len(FileNames) :
        /\ disk = [j \in 1..Len(FileNames) |-> h \o b]
        /\ note = NewNote(path, h \o b)
    /\ hist = [op |-> "init", title |-> NoneV]
    /\ run = RunIdle

\* title = note.get_title()
GetTitle ==
    /\ hist.op = "init"
    /\ hist' = [op |-> "get_title", title |-> get_title(note, Stem(note.path))]
    /\ UNCHANGED <<disk, note, run>>

NextTitle == GetTitle

SpecTitle == InitTitle /\ [][NextTitle]_vars

\* the file of the current iteration, and its note as it was read
CurrentPath == run.md_files[hist.at]
AsRead == NewNote(CurrentPath, hist.text)

\* a fully enriched note: a local cover, a runtime, a genre tag and an identifier
FullyEnriched(n) ==
    /\ IsStr(CoverOf(n))
    /\ CoverOf(n).s # ""
    /\ ~IsRRGGBB(CoverOf(n))
    /\ ~startswith(CoverOf(n).s, "http")
    /\ Truthy(Get(n.frontmatter, "runtime"))
    /\ SomeTagWithPrefix(n, {"movie/", "tv/"})
    /\ IsInt(IdOf(n))
    /\ Truthy(IdOf(n))
    /\ TypeOf(n) \in {StrV("movie"), StrV("tv")}

\* C1: once Stop Processing was pressed in the picker, the loop is over (the run is
\* at its summary), no later file was read, fetched for or written, the failed
\* count is the one from before the stop, and the summary reports the tally of
\* that moment
C1_StopEndsRun ==
    hist.stopAt # 0 =>
        /\ run.pc \in {"summary", "done"}
        /\ hist.at <= hist.stopAt
        /\ run.failed = hist.tallyAtStop.failed
        /\ run.pc = "done" => hist.reported = <<hist.tallyAtStop>>

\* C11 as claimed: a fully enriched note processed without the force flag causes no
\* fetch call (search, detail, genre list, image) and no write to its file, and is
\* counted as skipped
C11_EnrichedSkippedAsClaimed ==
    (hist.at > 0 /\ FullyEnriched(AsRead) /\ ~run.force) =>
        /\ hist.calls = [NoCalls EXCEPT !.read = 1]
        /\ disk[CurrentPath] = hist.text
        /\ Tally(run) = [hist.before EXCEPT !.skipped = @ + 1]

\* C11 amended: a fully enriched note processed with neither the force flag nor the
\* generate-content flag causes no fetch call and no write to its file, and is
\* counted as skipped
C11_EnrichedSkipped ==
    (hist.at > 0 /\ FullyEnriched(AsRead) /\ ~run.force /\ ~run.generate_content) =>
        /\ hist.calls = [NoCalls EXCEPT !.read = 1]
        /\ disk[CurrentPath] = hist.text
        /\ Tally(run) = [hist.before EXCEPT !.skipped = @ + 1]

C11_Witness ==
    /\ hist.op = "read"
    /\ hist.at = 1
    /\ FullyEnriched(AsRead)
    /\ ~run.force
    /\ ~run.generate_content
    /\ run.skipped = 1
    /\ run.pc = "read"

\* a stored identifier that is valid: a non-zero integer and a recognized type
ValidIdentifier(n) ==
    /\ IsInt(IdOf(n))
    /\ Truthy(IdOf(n))
    /\ TypeOf(n) \in {StrV("movie"), StrV("tv")}

\* the search results a metadata record or an image URL can come from
FromResults(metadata, results) ==
    \E i \in 1..Len(results) :
        /\ Get(metadata, "tmdb_id") = results[i].id
        /\ Get(metadata, "tmdb_type") = StrV(results[i].media_type)

PosterOfResults(image_url, results) ==
    \E i \in 1..Len(results) : image_url = StrV(image_base_url \o results[i].poster_path)

Qualifying(resp) ==
    {i \in 1..Len(resp) : resp[i].media_type \in {"movie", "tv"} /\ resp[i].poster_path # ""}

\* the k-th of a set of positions, in ascending order
Kth(Q, k) == CHOOSE i \in Q : Cardinality({j \in Q : j < i}) = k - 1

\* C13: after a title search that returned a response, the candidates are the first
\* entries of the response, in its order, that are a movie or a series with a poster,
\* at most 10 of them; the picker was shown exactly when there are two or more
\* candidates, then once and with exactly these candidates in this order; a single
\* candidate is taken without the picker (its lookup follows), and without
\* candidates there is neither picker nor lookup
C13_PickerOnAmbiguity ==
    (hist.op = "fetch" /\ hist.last.search = 1) =>
        /\ Len(hist.results) <= 10
        /\ Len(hist.results) =
              IF Cardinality(Qualifying(hist.response)) > 10 THEN 10
              ELSE Cardinality(Qualifying(hist.response))
        /\ \A k \in 1..Len(hist.results) :
              hist.results[k] = hist.response[Kth(Qualifying(hist.response), k)]
        /\ hist.last.picker = IF Len(hist.results) >= 2 THEN 1 ELSE 0
        /\ hist.shown = IF Len(hist.results) >= 2 THEN hist.results ELSE <<>>
        /\ Len(hist.results) = 1 =>
              /\ hist.last.detail = 1
              /\ run.loc.metadata # <<>> =>
                    Get(run.loc.metadata, "tmdb_id") = hist.results[1].id
        /\ Len(hist.results) = 0 => hist.last.detail = 0

C13_Witness ==
    /\ hist.op = "fetch"
    /\ Len(hist.response) = 12
    /\ Len(hist.results) = 10
    /\ hist.last.picker = 1
    /\ hist.shown = hist.results
    /\ Get(run.loc.metadata, "tmdb_id") = hist.results[2].id

\* the title search of the current note returned no candidate
ZeroResults ==
    /\ hist.at > 0
    /\ hist.calls.search = 1
    /\ hist.results = <<>>
    /\ hist.exc # "boundary"

\* the iteration of the current note is over
IterationOver == hist.at > 0 /\ run.idx > hist.at

\* the cover and metadata fields of the current note's file are those it was read with
EnrichmentFields == {"cover", "runtime", "tags", "tmdb_id", "tmdb_type"}
FieldsAsRead ==
    Restrict(NewNote(CurrentPath, disk[CurrentPath]).frontmatter, EnrichmentFields)
        = Restrict(AsRead.frontmatter, EnrichmentFields)

\* C14: when the title search of a note returned zero results, the cover,
\* runtime, tags, tmdb_id and tmdb_type fields of its file stay as they were, and
\* the note is counted as failed
C14_ZeroResultsFailed ==
    ZeroResults =>
        /\ FieldsAsRead
        /\ IterationOver => Tally(run) = [hist.before EXCEPT !.failed = @ + 1]

\* C15: for a note read with an externally hosted cover URL, the image URL handed to
\* the downloader is the stored URL in every branch, and unless an exception ended
\* the iteration or the user left the picker without a choice the cover is
\* downloaded from it, whatever the lookup or the search found
C15_ExternalCoverReused ==
    (hist.at > 0 /\ has_external_cover(AsRead.frontmatter)) =>
        /\ hist.calls.image > 0 => hist.image_arg = CoverOf(AsRead)
        /\ (IterationOver /\ hist.exc # "boundary" /\ hist.calls.picker = 0) =>
              hist.calls.image = 1

\* the acquisition of the current note resolved, by the stored identifier, a
\* candidate whose payload carries no poster reference, for a note that needs a cover
\* and stores no external one
PosterlessCandidate ==
    /\ hist.at > 0
    /\ run.idx = hist.at
    /\ hist.op \in {"fetch", "metadata"}
    /\ hist.exc = "none"
    /\ hist.calls.search = 0
    /\ run.loc.needs.needs_cover
    /\ ~has_external_cover(AsRead.frontmatter)
    /\ Len(hist.details) >= 1
    /\ ~hist.details[1].resp.empty
    /\ hist.details[1].resp.poster_path = ""

\* the runtime a payload carries for a media type, as a one-element sequence
RuntimeIn(resp, media_type) ==
    IF media_type = StrV("movie")
    THEN (IF resp.runtime # 0 THEN <<IntV(resp.runtime)>> ELSE <<>>)
    ELSE (IF resp.episode_run_time # <<>> THEN <<IntV(resp.episode_run_time[1])>>
          ELSE <<>>)

\* the genre ids of a payload that the genre list of the media type names
NamedGenres(resp, media_type) ==
    {i \in 1..Len(resp.genres) :
        \E j \in 1..Len(Get(run.cache, media_type.s)) :
            Get(run.cache, media_type.s)[j].id = resp.genres[i]}

C17_RetryPolicy ==
    /\ hist.last.search_http <= 3 * hist.last.search
    /\ hist.last.detail_http <= 3 * hist.last.detail
    /\ hist.last.genres_http <= 3 * hist.last.genres
    /\ hist.last.image_http <= 3 * hist.last.image
    /\ hist.last.status_retries = 0

\* the loop goes through the whole file list: after an iteration the next file is
\* read, and the summary comes only after the last file, each file counted once
LoopGoesOn ==
    /\ IterationOver =>
          /\ run.idx = hist.at + 1
          /\ run.pc = "read" <=> hist.at < Len(run.md_files)
    /\ run.pc \in {"summary", "done"} =>
          /\ hist.at = Len(run.md_files)
          /\ run.processed + run.skipped + run.failed = Len(run.md_files)

ConfigError ==
    \/ ~run.api_key
    \/ run.path \in {"missing", "file_txt", "dir_empty", "other"}

\* C19: with a configuration error the program ends with exit status 1 at once: no
\* note was read, no fetch made, no attachments directory created and no file
\* written; and it ends so for no other reason
C19_ConfigErrorsAbort ==
    /\ (ConfigError /\ run.pc # "start") =>
          /\ run.pc = "exit"
          /\ hist.op = "startup"
          /\ hist.at = 0
          /\ note = NoNote
          /\ hist.calls = NoCalls
          /\ ~hist.mkdir
          /\ disk = [j \in 1..Len(FileNames) |-> NoteTexts[ErrorVault[j]]]
          /\ Tally(run) = [processed |-> 0, skipped |-> 0, failed |-> 0]
    /\ run.pc = "exit" => ConfigError

C19_Witness ==
    /\ run.pc = "exit"
    /\ run.api_key
    /\ run.path = "dir_empty"
    /\ ~hist.mkdir
    /\ hist.calls = NoCalls

\* the tags a frontmatter holds: the entries of a list, a scalar as the one tag it is
TagsPresent(f) ==
    LET Of(v) == IF IsList(v) THEN Entries(v.l)
                 ELSE IF v.t = "none" THEN {}
                 ELSE {v}
    IN  Of(GetDefault(f, "tags", ListV(<<>>)))

\* a call that merged tags: update_tags, or update_metadata with genre_tags
MergeCalled == hist.updates >= 1 /\ hist.new # NoneV

Ascending(l) == \A i \in 1..(Len(l) - 1) : StrLess(l[i].s, l[i + 1].s)

\* C20: after update_metadata or update_tags merged tags, the tags field is the union
\* of the tags the note had and the new ones, each once and in ascending order, no
\* tag the note had is gone, and the same call made twice leaves what one call left
C20_TagMerge ==
    MergeCalled =>
        /\ ~hist.raised
        /\ IsList(TagsOf(note))
        /\ Entries(TagsOf(note).l) = TagsPresent(hist.before) \cup Entries(hist.new.l)
        /\ TagsPresent(hist.before) \subseteq Entries(TagsOf(note).l)
        /\ Cardinality(Entries(TagsOf(note).l)) = Len(TagsOf(note).l)
        /\ (\A v \in Entries(TagsOf(note).l) : v.t = "str") /\ Ascending(TagsOf(note).l)
        /\ (hist.updates = 2 /\ hist.new = hist.prevNew) =>
              TagsPresent(note.frontmatter) = TagsPresent(hist.before)

\* the fields update_metadata copies from its input
CopiedFields == {"runtime", "total_episodes", "tmdb_id", "tmdb_type"}

\* the key k and its value are in g as they are in f
SameAt(f, g, k) == HasKey(f, k) = HasKey(g, k) /\ Get(f, k) = Get(g, k)

C22_SeasonsAscending ==
    hist.op = "build_season_breakdown" =>
        \A i, j \in 1..Len(hist.details.seasons) :
            LET a == hist.details.seasons[i]
                b == hist.details.seasons[j]
            IN  Get(a, "season_number").n < Get(b, "season_number").n =>
                    /\ contains(hist.section, SeasonHeader(a))
                    /\ contains(hist.section, SeasonHeader(b))
                    /\ find(hist.section, SeasonHeader(a)) < find(hist.section, SeasonHeader(b))

\* the note of the iteration that is over, as the file holds it now
OnDisk == NewNote(CurrentPath, disk[CurrentPath])

\* the one candidate of the search and the genres of its payload the mapping names
TheCandidate == hist.results[1]
ResolvedGenres ==
    LET mapping == Get(run.cache, TheCandidate.media_type) IN
    {id \in {hist.details[1].resp.genres[i] : i \in 1..Len(hist.details[1].resp.genres)} :
        \E i \in 1..Len(mapping) : mapping[i].id = id}

\* a note without frontmatter, a title search with exactly one candidate, which
\* bears a poster, a detail fetch that gave a payload with a genre the mapping
\* names, and a download that saved the image
HappyPath ==
    /\ IterationOver
    /\ ~startswith(hist.text, Delim)
    /\ AsRead.frontmatter = <<>>
    /\ Len(hist.results) = 1
    /\ hist.results[1].poster_path # ""
    /\ Len(hist.details) = 1
    /\ ~hist.details[1].raised
    /\ ~hist.details[1].resp.empty
    /\ HasKey(run.cache, TheCandidate.media_type)
    /\ ResolvedGenres # {}
    /\ hist.download = "saved"

\* C23: after such an iteration the frontmatter of the note holds cover, tmdb_id,
\* tmdb_type and a genre tag, the note was counted as processed, and the skipped
\* and failed counts are what they were before it
C23_HappyPath ==
    HappyPath =>
        /\ HasKey(OnDisk.frontmatter, "cover")
        /\ CoverOf(OnDisk) = StrV(get_relative_cover_path(get_title(AsRead, Stem(CurrentPath))))
        /\ IdOf(OnDisk) = TheCandidate.id
        /\ TypeOf(OnDisk) = StrV(TheCandidate.media_type)
        /\ IsList(TagsOf(OnDisk))
        /\ \E i \in 1..Len(TagsOf(OnDisk).l) :
              startswith(TagsOf(OnDisk).l[i].s, TheCandidate.media_type \o "/")
        /\ run.processed = hist.before.processed + 1
        /\ run.skipped = hist.before.skipped
        /\ run.failed = hist.before.failed

\* the second note of a vault went this way after the first one was counted
C23_Witness ==
    /\ HappyPath
    /\ hist.at = 2
    /\ hist.before.failed + hist.before.skipped = 1
    /\ run.processed = 1
    /\ HasKey(OnDisk.frontmatter, "tmdb_id")

\* what the claim makes of one character, and of a name character by character
RECURSIVE Rewritten(_)
Rewritten(name) ==
    LET Of(c) == CASE c = "&" -> "and"
                   [] c = "#" -> ""
                   [] c \in {"/", " "} -> "-"
                   [] OTHER -> c
    IN  IF name = "" THEN "" ELSE Of(At(name, 1)) \o Rewritten(SliceFrom(name, 1))

\* s without the hyphens at its two ends
Trimmed(s) ==
    LET kept == {i \in 1..Len(s) : At(s, i) # "-"} IN
    IF kept = {} THEN ""
    ELSE SubSeq(s, CHOOSE i \in kept : \A j \in kept : i <= j,
                   CHOOSE i \in kept : \A j \in kept : j <= i)

\* C24: the sanitized name is the name with every & written as and, every # left
\* out, every / and every space written as a hyphen, and the hyphens at its two
\* ends cut off; it holds no &, #, / or space and neither starts nor ends with a
\* hyphen
C24_SanitizedName ==
    hist.op = "_sanitize_genre_name" =>
        /\ hist.sanitized = Trimmed(Rewritten(hist.name))
        /\ \A i \in 1..Len(hist.sanitized) : At(hist.sanitized, i) \notin {"&", "#", "/", " "}
        /\ ~startswith(hist.sanitized, "-")
        /\ ~endswith(hist.sanitized, "-")
        /\ hist.name = "Sci-Fi & Fantasy" => hist.sanitized = "Sci-Fi-and-Fantasy"
        /\ hist.name = "Comedy/Drama" => hist.sanitized = "Comedy-Drama"

\* a name whose rewriting leaves hyphens at both ends and one inside
C24_Witness ==
    /\ hist.op = "_sanitize_genre_name"
    /\ hist.name = "-#1 Hits/"
    /\ hist.sanitized = "1-Hits"

\* the first-level headings of a body: its lines that are a "#", then spaces or
\* tabs, then text; and the text of the first of them
IsH1(line) ==
    /\ Len(line) >= 2
    /\ At(line, 1) = "#"
    /\ At(line, 2) \in {" ", "\t"}
    /\ lstrip(rstrip(SliceFrom(line, 1))) # ""

H1Lines(body) == SelectSeq(split(body, "\n"), IsH1)

FirstH1Text(body) == lstrip(rstrip(SliceFrom(H1Lines(body)[1], 1)))

\* the frontmatter holds a title that is not empty
HasTitle(n) ==
    /\ HasKey(n.frontmatter, "title")
    /\ Get(n.frontmatter, "title") \notin {NoneV, StrV("")}

\* C25: get_title returns the frontmatter title when the note has one that is not
\* empty, whether or not the body has a heading; else the text of the first
\* first-level heading of the body; else the file name without its extension
C25_TitlePriority ==
    hist.op = "get_title" =>
        hist.title = IF HasTitle(note) THEN Get(note.frontmatter, "title")
                     ELSE IF H1Lines(note.body) # <<>> THEN StrV(FirstH1Text(note.body))
                     ELSE StrV(Stem(note.path))

\* C26: a note counted as processed had a write of this run succeed; a note that
\* was not skipped and had nothing written is counted as failed
C26_ProcessedMeansWritten ==
    IterationOver =>
        /\ run.processed = hist.before.processed + 1 => hist.calls.write >= 1
        /\ (hist.calls.write = 0 /\ run.skipped = hist.before.skipped) =>
              /\ run.failed = hist.before.failed + 1
              /\ run.processed = hist.before.processed

\* the metadata acquisition returned for the note is in the file: the fields as
\* returned, the genre tags among the tags
MetadataWritten ==
    /\ \A k \in CopiedFields :
          HasKey(hist.metadata, k) =>
              /\ HasKey(OnDisk.frontmatter, k)
              /\ Get(OnDisk.frontmatter, k) = Get(hist.metadata, k)
    /\ HasKey(hist.metadata, "genre_tags") =>
          /\ IsList(TagsOf(OnDisk))
          /\ Entries(Get(hist.metadata, "genre_tags").l) \subseteq Entries(TagsOf(OnDisk).l)

\* C27: when acquisition returned metadata for a note and the cover download was
\* made, the metadata is written to the note however the download ended: with the
\* image saved, with False, or with the exception left when every attempt failed
C27_MetadataDespiteDownload ==
    (IterationOver /\ hist.metadata # <<>> /\ hist.download # "none") => MetadataWritten

\* the first run processed the note: the cover was downloaded and stored, and
\* metadata with a runtime, a genre tag and the identifier was written
FirstRunEnriched ==
    /\ hist.round = 2
    /\ hist.first.tally.processed = 1
    /\ hist.first.download = "saved"
    /\ HasKey(hist.first.metadata, "runtime")
    /\ HasKey(hist.first.metadata, "genre_tags")
    /\ HasKey(hist.first.metadata, "tmdb_id")
    /\ HasKey(hist.first.metadata, "tmdb_type")

\* C28: a second run, with neither flag, over a note the first run enriched reads
\* the note, finds none of the three needs, makes no fetch call, writes nothing
\* and counts the note as skipped
C28_SecondRunSkips ==
    (FirstRunEnriched /\ hist.at = 1) =>
        /\ _determine_processing_needs(NewNote(1, hist.first.disk[1]).frontmatter)
              = [raised |-> FALSE, needs_cover |-> FALSE, needs_metadata |-> FALSE,
                 needs_tmdb_id |-> FALSE]
        /\ hist.text = hist.first.disk[1]
        /\ hist.calls = [NoCalls EXCEPT !.read = 1]
        /\ disk = hist.first.disk
        /\ Tally(run) = [processed |-> 0, skipped |-> 1, failed |-> 0]
        /\ run.pc \in {"summary", "done"}

\* the second run is over: the note, which had no frontmatter before the first run,
\* was skipped
C28_Witness ==
    /\ FirstRunEnriched
    /\ run.pc = "done"
    /\ run.skipped = 1
    /\ hist.reported = <<[processed |-> 0, skipped |-> 1, failed |-> 0]>>
    /\ startswith(disk[1], Delim)
    /\ hist.calls.search = 0

\* the notes counted so far
Counted == run.processed + run.skipped + run.failed

\* the counters that stand one above what they were before the iteration
Raised ==
    {k \in {"processed", "skipped", "failed"} : Tally(run)[k] = hist.before[k] + 1}

\* C29: in the loop the three counters add up to the number of notes the loop is
\* through with; the iteration of a note raises exactly one of them, by one, and
\* leaves the two others; after the loop they add up to the number of files
C29_TallyInvariant ==
    /\ run.pc \in {"read", "fetch", "cover", "metadata", "content", "tally"} =>
          Counted = run.idx - 1
    /\ IterationOver =>
          /\ Cardinality(Raised) = 1
          /\ \A k \in {"processed", "skipped", "failed"} \ Raised :
                Tally(run)[k] = hist.before[k]
          /\ Counted = hist.at
    /\ run.pc \in {"summary", "done"} => Counted = Len(run.md_files)
    /\ run.pc = "done" => hist.reported = <<Tally(run)>>

\* a run over two files that counted one note as processed and one as failed
C29_Witness ==
    /\ run.pc = "done"
    /\ Len(run.md_files) = 2
    /\ run.processed = 1
    /\ run.failed = 1
    /\ hist.reported = <<[processed |-> 1, skipped |-> 0, failed |-> 1]>>

\* the needs of the note as it was read
NeedsAsRead == _determine_processing_needs(AsRead.frontmatter)

\* the fetch of the note went by its stored identifier
FetchedById == hist.op = "fetch" /\ UsesStoredId(AsRead.frontmatter, run.force)

\* C30: a fetch by the stored identifier for a note that needs the metadata and not
\* the cover, or the cover and not the metadata, makes exactly one detail fetch
C30_OneDetailFetch ==
    (FetchedById /\ NeedsAsRead.needs_cover # NeedsAsRead.needs_metadata) =>
        hist.last.detail = 1

====
